---- MODULE Spec2Model ----
(***************************************************************************)
(* Model of the two browser-automation scripts of the repository:          *)
(*   src/Job_Bot_Nvidia_main.py  (Workday bot: robust_click, pagination,   *)
(*                                per-job tab loop)                        *)
(*   src/bot_Job_IAI_main.py     (IAI bot: list pages by URL, per-job tab   *)
(*                                loop, finish_tab)                        *)
(* The browser and the site are the environment: every outcome a driver    *)
(* call can have (success, an exception, a value read from the page) is    *)
(* chosen with \E from a small set.  Each script is one sequential thread  *)
(* of control whose position is pc.                                        *)
(***************************************************************************)
EXTENDS Integers, Sequences, FiniteSets, TLC

VARIABLES
    prog,            \* which entry point is running
    pc,              \* position of the thread of control
    \* ---- robust_click (Nvidia) ----
    click_log,       \* stages attempted so far: sequence of [stage, ok]
    click_result,    \* value returned by robust_click ("none" until it returns)
    click_ret,       \* where robust_click returns to
    \* ---- go_to_next_results_page_if_any (Nvidia) ----
    before_state,    \* get_pagination_state() before the click
    after_state,     \* latest get_pagination_state() of the wait loop
    next_btn,        \* "none" | "next" (the pagination arrow) | "html" (root element)
    clicked,         \* local variable clicked
    click_target,    \* element the successful click was issued on ("none" if none)
    elapsed,         \* time.time() - start, in tenths of a second
    np_result,       \* return value of go_to_next_results_page_if_any
    \* ---- switch_to_frame_containing (Nvidia) ----
    fs_tree,         \* the page: fs_tree[i] = number of iframes inside the i-th iframe
    fs_where,        \* documents in which the locator has an element (frame paths)
    ctx,             \* the driver's frame context: <<>> top, <<i>>, <<i, j>>
    fs_i,            \* position of the loop over f1
    fs_j,            \* position of the loop over f2
    fs_log,          \* documents examined so far, in order
    fs_result,       \* "none" | "found" (returned) | "NoSuchElementException" (raised)
    unwound,         \* functions the raised exception has left so far
    \* ---- candidate locator lists (Nvidia) ----
    lr_mode,         \* which lookup runs ("none" = none)
    lr_locs,         \* what each candidate locator of the list matches on the page
    lr_timeout,      \* timeout of each WebDriverWait of the lookup (seconds)
    lr_k,            \* position of the loop over the candidates
    lr_clock,        \* seconds spent waiting since the lookup began
    lr_tried,        \* candidates tried so far, in order, with their outcome
    lr_el,           \* element the latest successful wait returned
    lr_result,       \* outcome of the lookup ("none" while it runs)
    \* ---- one call of compute_next_list_url (IAI) ----
    cn_url,          \* the argument current_url
    cn_out,          \* how the call ended: "none" | "returned" | "raised"
    cn_ret,          \* the value returned
    \* ---- the browser (both scripts) ----
    window_handles,  \* driver.window_handles: open tabs, oldest first
    current,         \* driver.current_window_handle: the active context
    tab_url,         \* URL shown by each open tab
    \* ---- the IAI site ----
    site_last,       \* number of list pages that contain job cards
    redirects,       \* times the site answered a list URL with another URL
    cards_shown,     \* job cards the list pages have shown so far
    list_captcha,    \* the list pages of the site embed a reCAPTCHA element
    run_cap,         \* list pages of one run that are followed
    \* ---- IAIApplicationBot ----
    start_page,      \* self.start_page
    max_pages,       \* self.max_pages
    main_handle,     \* self.main_handle (0 = None)
    last_list_url,   \* self.last_list_url
    visited_urls,    \* self.visited_urls
    jobs,            \* jobs of the page being processed (has a link to open?)
    job_i,           \* index of the job being processed (enumerate(jobs, 1))
    success,         \* local variable success of apply_to_jobs_on_page
    captcha_tab,     \* tab whose page shows a reCAPTCHA widget (0 = none)
    \* ---- part3_process_each_job_and_save (Nvidia) ----
    base_tab,        \* base_tab
    applied_count,   \* applied_count
    \* ---- observations, never read by the scripts ----
    job_tab,         \* tab opened for the job being processed (0 = none)
    job_open,        \* a job body has been entered and its tab not yet released
    kept_tabs,       \* tabs finish_tab(False) has left open so far
    pages_processed, \* number of list pages scraped so far
    revisit_call,    \* goto_list_url was called, after the first page, with a visited URL
    top_page,        \* highest list page number loaded so far
    submits,         \* Apply flows in which the Submit click of step 12 was issued
    reviews,         \* Apply flows that reached step 12 (Review -> Submit)
    \* ---- the human-escalation pauses (both scripts) ----
    console,         \* "tty": input() waits for the operator; "closed": input() raises
    pause_from,      \* position of the step whose failure led to the pause ("none" = no pause)
    pause_to,        \* position the code goes on from once the pause is over
    last_pause,      \* how the latest pause ended: "none" | "ack" | "no_input"
    fatal            \* exception that ended the run: "none" | "prompted" | "unprompted"

vars == <<prog, pc, click_log, click_result, click_ret, before_state, after_state,
          next_btn, clicked, click_target, elapsed, np_result,
          fs_tree, fs_where, ctx, fs_i, fs_j, fs_log, fs_result, unwound,
          lr_mode, lr_locs, lr_timeout, lr_k, lr_clock, lr_tried, lr_el, lr_result,
          cn_url, cn_out, cn_ret,
          window_handles, current, tab_url, site_last, redirects, cards_shown, list_captcha, run_cap,
          start_page, max_pages, main_handle, last_list_url, visited_urls,
          jobs, job_i, success, captcha_tab, base_tab, applied_count,
          job_tab, job_open, kept_tabs, pages_processed, revisit_call, top_page,
          submits, reviews,
          console, pause_from, pause_to, last_pause, fatal>>

click_vars == <<click_log, click_result, click_ret>>
np_vars == <<before_state, after_state, next_btn, clicked, click_target, elapsed, np_result>>
frame_vars == <<fs_tree, fs_where, ctx, fs_i, fs_j, fs_log, fs_result, unwound>>
locator_vars == <<lr_mode, lr_locs, lr_timeout, lr_k, lr_clock, lr_tried, lr_el, lr_result>>
url_vars == <<cn_url, cn_out, cn_ret>>
search_vars == <<frame_vars, locator_vars, url_vars>>
engine_vars == <<click_vars, np_vars, search_vars>>
browser_vars == <<window_handles, current, tab_url>>
site_vars == <<site_last, redirects, cards_shown, list_captcha, run_cap>>
iai_vars == <<start_page, max_pages, main_handle, last_list_url, visited_urls>>
loop_vars == <<jobs, job_i, success, captcha_tab>>
p3_vars == <<base_tab, applied_count>>
obs_vars == <<job_tab, job_open, kept_tabs, pages_processed, revisit_call, top_page>>
gate_vars == <<console, pause_from, pause_to, last_pause, fatal>>
count_vars == <<submits, reviews>>
jobs_vars == <<browser_vars, site_vars, iai_vars, loop_vars, p3_vars, obs_vars, count_vars,
               gate_vars>>

(***************************************************************************)
(* Bounds and program constants                                            *)
(***************************************************************************)
NumTexts == 2            \* distinct non-empty texts a pagination signal can show
MaxFrames == 2           \* iframes inside one document
MaxLocs == 3             \* candidate locators in one list
LateAt == 3              \* seconds after which a late element appears
SafeClickTimeout == 10   \* def safe_click(driver, locator, timeout=10)
CandidateWait == 8       \* WebDriverWait(driver, 8), safe_click(driver, loc, timeout=8)
default_wait_s == 20     \* SeleniumConfig.default_wait_s
WaitBudget == 200        \* while time.time() - start < 20   (tenths of a second)
PollSleep == 6           \* time.sleep(0.6)                  (tenths of a second)
MaxJobs == 2             \* job cards followed in one run
MaxSitePages == 1        \* list pages of the site that contain job cards
MaxStart == 2            \* largest small --start value tried
MaxPagesArg == 2         \* largest --pages value tried
MaxRedirects == 1        \* redirects the site answers with during one run
MaxRedirectPage == 3     \* highest list page whose request may be redirected
MaxRun == 4              \* list pages followed in one run of the model
PgLimit == 1000          \* compute_next_list_url: "if x < 1 or x > 1000"
JobLimit == 20           \* part3: "if idx >= 20 or applied_count >= 20"

\* A text read from the page: <<>> is the empty string, <<c>> a non-empty one.
Texts == {<<>>} \cup {<<c>> : c \in 1..NumTexts}
Truthy(t) == Len(t) > 0                     \* Python truthiness of a str
PaginationStates == Texts \X Texts \X Texts \* (current_page_label, outof_text, first_job_href)
NoState == <<<<>>, <<>>, <<>>>>

(***************************************************************************)
(* URLs of the IAI site.  A URL is reduced to what the scripts look at:    *)
(* host, path, the pr parameter and the pg parameter (absent, an integer,  *)
(* or some other text).                                                    *)
(***************************************************************************)
Url(h, p, r, k, v) == [host |-> h, path |-> p, pr |-> r, pgKind |-> k, pgVal |-> v]
ListUrl(k, v) == Url("jobs.iai.co.il", "/jobs/", "41", k, v)
BASE_LIST_URL == ListUrl("absent", 0)           \* "https://jobs.iai.co.il/jobs/?pr=41"
AppUrl == Url("jobs.iai.co.il", "/application/", "", "absent", 0)
ThankUrl == Url("jobs.iai.co.il", "/thank-you/", "", "absent", 0)
ErrorUrl == Url("jobs.iai.co.il", "/error/", "", "absent", 0)
BlankUrl == Url("", "", "", "absent", 0)        \* a fresh browser window
None == Url("None", "", "", "absent", 0)        \* Python's None

\* THANK_YOU_PATH in url
IsThankYou(u) == u.path = "/thank-you/"
\* "/jobs/" in u and "pr=41" in u
IsListUrl(u) == u.path = "/jobs/" /\ u.pr = "41"
\* The list page a URL shows (a list URL without pg shows page 1).
PageOf(u) == IF u.pgKind = "int" THEN u.pgVal ELSE 1

Range(q) == {q[i] : i \in 1..Len(q)}
MaxOf(a, b) == IF a >= b THEN a ELSE b

\* The browser and job-loop state while only the interaction engine runs.
JobsIdle ==
    /\ window_handles = <<1>>
    /\ current = 1
    /\ tab_url = [h \in {1} |-> BlankUrl]
    /\ site_last = 0
    /\ list_captcha = FALSE
    /\ run_cap = 0
    /\ submits = 0
    /\ reviews = 0
    /\ redirects = 0
    /\ cards_shown = 0
    /\ start_page = 1
    /\ max_pages = 0
    /\ main_handle = 0
    /\ last_list_url = None
    /\ visited_urls = {}
    /\ jobs = <<>>
    /\ job_i = 1
    /\ success = FALSE
    /\ captcha_tab = 0
    /\ base_tab = 0
    /\ applied_count = 0
    /\ job_tab = 0
    /\ job_open = FALSE
    /\ kept_tabs = 0
    /\ pages_processed = 0
    /\ revisit_call = FALSE
    /\ top_page = 0
    /\ console = "tty"
    /\ pause_from = "none"
    /\ pause_to = "none"
    /\ last_pause = "none"
    /\ fatal = "none"

\* No element.
NoElement == [cand |-> 0, displayed |-> FALSE]

\* No call of compute_next_list_url is observed.
UrlIdle ==
    /\ cn_url = None
    /\ cn_out = "none"
    /\ cn_ret = None

\* The state of a candidate lookup while something else runs.
LocatorIdle ==
    /\ lr_mode = "none"
    /\ lr_locs = <<>>
    /\ lr_timeout = 0
    /\ lr_k = 1
    /\ lr_clock = 0
    /\ lr_tried = <<>>
    /\ lr_el = NoElement
    /\ lr_result = "none"

\* The state of the frame search while something else runs.
FramesIdle ==
    /\ fs_tree = <<>>
    /\ fs_where = {}
    /\ ctx = <<>>
    /\ fs_i = 1
    /\ fs_j = 1
    /\ fs_log = <<>>
    /\ fs_result = "none"
    /\ unwound = 0

SearchIdle == FramesIdle /\ LocatorIdle /\ UrlIdle

\* The interaction-engine state while a job loop runs.
EngineIdle ==
    /\ SearchIdle
    /\ click_log = <<>>
    /\ click_result = "none"
    /\ click_ret = "top"
    /\ before_state = NoState
    /\ after_state = NoState
    /\ next_btn = "none"
    /\ clicked = FALSE
    /\ click_target = "none"
    /\ elapsed = 0
    /\ np_result = "none"

(***************************************************************************)
(* robust_click(driver, element)                                           *)
(***************************************************************************)
\* Stage 1: element.click()
RC_NativeMut ==
    /\ pc = "rc_native"
    /\ \E ok \in BOOLEAN :
         /\ click_log' = Append(click_log, [stage |-> 1, ok |-> ok])
         /\ click_result' = IF ok THEN "true" ELSE click_result
         /\ pc' = "rc_js"
    /\ UNCHANGED <<jobs_vars, search_vars>>
    /\ UNCHANGED <<prog, click_ret, np_vars>>

RC_Native ==
    /\ pc = "rc_native"
    /\ \E ok \in BOOLEAN :
         /\ click_log' = Append(click_log, [stage |-> 1, ok |-> ok])
         /\ IF ok THEN click_result' = "true" /\ pc' = "rc_return"
                  ELSE click_result' = click_result /\ pc' = "rc_js"
    /\ UNCHANGED <<jobs_vars, search_vars>>
    /\ UNCHANGED <<prog, click_ret, np_vars>>

\* Stage 2: scrollIntoView then JS click; either script call may raise.
RC_Js ==
    /\ pc = "rc_js"
    /\ \E out \in {"ok", "scroll_raises", "click_raises"} :
         /\ click_log' = Append(click_log, [stage |-> 2, ok |-> (out = "ok")])
         /\ IF out = "ok" THEN click_result' = "true" /\ pc' = "rc_return"
                          ELSE click_result' = click_result /\ pc' = "rc_chains"
    /\ UNCHANGED <<jobs_vars, search_vars>>
    /\ UNCHANGED <<prog, click_ret, np_vars>>

\* Stage 3: ActionChains move_to_element, pause, click, perform.
RC_Chains ==
    /\ pc = "rc_chains"
    /\ \E ok \in BOOLEAN :
         /\ click_log' = Append(click_log, [stage |-> 3, ok |-> ok])
         /\ click_result' = IF ok THEN "true" ELSE "false"
         /\ pc' = "rc_return"
    /\ UNCHANGED <<jobs_vars, search_vars>>
    /\ UNCHANGED <<prog, click_ret, np_vars>>

\* robust_click called directly on an element (a standalone call).
RC_ReturnTop ==
    /\ pc = "rc_return"
    /\ click_ret = "top"
    /\ pc' = "done"
    /\ UNCHANGED <<jobs_vars, search_vars>>
    /\ UNCHANGED <<prog, click_vars, np_vars>>

\* clicked = robust_click(driver, next_btn) returns into go_to_next_results_page_if_any.
RC_ReturnNextPage ==
    /\ pc = "rc_return"
    /\ click_ret = "nextpage"
    /\ clicked' = (click_result = "true")
    /\ IF click_result = "true"
         THEN /\ click_target' = next_btn
              /\ elapsed' = 0                 \* start = time.time()
              /\ pc' = "np_wait"
         ELSE /\ UNCHANGED <<click_target, elapsed>>
              /\ pc' = "np_jsfallback"
    /\ click_log' = <<>>                      \* robust_click's frame is gone
    /\ click_result' = "none"
    /\ UNCHANGED <<jobs_vars, search_vars>>
    /\ UNCHANGED <<prog, click_ret, before_state, after_state, next_btn, np_result>>

(***************************************************************************)
(* go_to_next_results_page_if_any(driver, cfg)                             *)
(***************************************************************************)
\* The i-th signal counts as changed: "before[i] and after[i] and after[i] != before[i]".
SignalChangedNoBefore(b, a, i) == Truthy(a[i]) /\ a[i] # b[i]

SignalChangedAnyDiff(b, a, i) == a[i] # b[i]

SignalChanged(b, a, i) == Truthy(b[i]) /\ Truthy(a[i]) /\ a[i] # b[i]

\* The three "if ...: return True" tests of one poll, in source order.
PollReturnsTrueAll(b, a) ==
    SignalChanged(b, a, 1) /\ SignalChanged(b, a, 2) /\ SignalChanged(b, a, 3)

PollReturnsTrue(b, a) ==
    IF SignalChanged(b, a, 1) THEN TRUE
    ELSE IF SignalChanged(b, a, 2) THEN TRUE
    ELSE IF SignalChanged(b, a, 3) THEN TRUE
    ELSE FALSE

\* The loop condition "time.time() - start < 20".
InBudgetLate(e) == e <= WaitBudget + PollSleep

InBudget(e) == e < WaitBudget

\* before_state = get_pagination_state(); scroll; locate the next button.
NP_FindNext ==
    /\ pc = "np_start"
    /\ \E b \in PaginationStates, found \in {"nav_selector", "svg_fallback", "not_found"} :
         /\ before_state' = b
         /\ IF found = "not_found"
              THEN next_btn' = "none" /\ np_result' = "false" /\ pc' = "done"
              ELSE next_btn' = "next" /\ np_result' = np_result /\ pc' = "np_disabled"
    /\ UNCHANGED <<jobs_vars, search_vars>>
    /\ UNCHANGED <<prog, click_vars, after_state, clicked, click_target, elapsed>>

\* aria-disabled / disabled test; a raising get_attribute is swallowed.
NP_CheckDisabled ==
    /\ pc = "np_disabled"
    /\ \E d \in {"enabled", "disabled", "raises"} :
         IF d = "disabled"
           THEN np_result' = "false" /\ pc' = "done"
           ELSE np_result' = np_result /\ pc' = "np_click"
    /\ UNCHANGED <<jobs_vars, search_vars>>
    /\ UNCHANGED <<prog, click_vars, before_state, after_state, next_btn, clicked,
                   click_target, elapsed>>

\* next_btn = WebDriverWait(driver, 3).until(element_to_be_clickable((XPATH, ".//self::*")))
\* rebinds next_btn to the document's root element when the wait succeeds;
\* then clicked = robust_click(driver, next_btn).
NP_Click ==
    /\ pc = "np_click"
    /\ \E waitOk \in BOOLEAN :
         next_btn' = IF waitOk THEN "html" ELSE next_btn
    /\ click_log' = <<>>
    /\ click_result' = "none"
    /\ click_ret' = "nextpage"
    /\ pc' = "rc_native"
    /\ UNCHANGED <<jobs_vars, search_vars>>
    /\ UNCHANGED <<prog, before_state, after_state, clicked, click_target, elapsed, np_result>>

\* if not clicked: driver.execute_script("arguments[0].click();", next_btn)
NP_JsFallback ==
    /\ pc = "np_jsfallback"
    /\ \E ok \in BOOLEAN :
         IF ok
           THEN /\ clicked' = TRUE
                /\ click_target' = next_btn
                /\ elapsed' = 0               \* start = time.time()
                /\ np_result' = np_result
                /\ pc' = "np_wait"
           ELSE /\ np_result' = "false"
                /\ pc' = "done"
                /\ UNCHANGED <<clicked, click_target, elapsed>>
    /\ UNCHANGED <<jobs_vars, search_vars>>
    /\ UNCHANGED <<prog, click_vars, before_state, after_state, next_btn>>

\* One iteration of the wait loop: sleep 0.6 s, take a snapshot, compare.
NP_Poll ==
    /\ pc = "np_wait"
    /\ InBudget(elapsed)
    /\ elapsed' = elapsed + PollSleep
    /\ \E a \in PaginationStates :
         /\ after_state' = a
         /\ IF PollReturnsTrue(before_state, a)
              THEN np_result' = "true" /\ pc' = "done"
              ELSE np_result' = np_result /\ pc' = "np_wait"
    /\ UNCHANGED <<jobs_vars, search_vars>>
    /\ UNCHANGED <<prog, click_vars, before_state, next_btn, clicked, click_target>>

\* The loop condition fails: "Aucun changement détecté", return False.
NP_Timeout ==
    /\ pc = "np_wait"
    /\ ~InBudget(elapsed)
    /\ np_result' = "false"
    /\ pc' = "done"
    /\ UNCHANGED <<jobs_vars, search_vars>>
    /\ UNCHANGED <<prog, click_vars, before_state, after_state, next_btn, clicked,
                   click_target, elapsed>>

(***************************************************************************)
(* Specification of the Nvidia interaction engine: a standalone            *)
(* robust_click call, or one call of go_to_next_results_page_if_any.       *)
(***************************************************************************)
InitEngine ==
    /\ prog \in {"click", "nextpage"}
    /\ pc = IF prog = "click" THEN "rc_native" ELSE "np_start"
    /\ click_log = <<>>
    /\ click_result = "none"
    /\ click_ret = "top"
    /\ before_state = NoState
    /\ after_state = NoState
    /\ next_btn = "none"
    /\ clicked = FALSE
    /\ click_target = "none"
    /\ elapsed = 0
    /\ np_result = "none"
    /\ SearchIdle
    /\ JobsIdle

NextEngine ==
    \/ RC_Native
    \/ RC_Js
    \/ RC_Chains
    \/ RC_ReturnTop
    \/ RC_ReturnNextPage
    \/ NP_FindNext
    \/ NP_CheckDisabled
    \/ NP_Click
    \/ NP_JsFallback
    \/ NP_Poll
    \/ NP_Timeout

SpecEngine == InitEngine /\ [][NextEngine]_vars

\* The script is a sequential program: whenever a step is possible, one is taken.
FairEngine == SpecEngine /\ WF_vars(NextEngine)

(***************************************************************************)
(* switch_to_frame_containing(driver, locator, timeout), called by         *)
(* part1_login                                                             *)
(***************************************************************************)
\* Everything but the frame search.
NotFrames == <<prog, click_vars, np_vars, locator_vars, url_vars, jobs_vars>>

\* WebDriverWait(...).until(EC.presence_of_element_located(locator)) in the
\* document c: the element is found iff the locator has an element there (the
\* elements of a nested iframe are not elements of the document).
PresentIn(c) == c \in fs_where

\* A search that leaves the driver in the last frame examined.
FS_NotFoundNoRestore ==
    /\ pc = "fs_f1"
    /\ fs_i > Len(fs_tree)
    /\ fs_result' = "NoSuchElementException"
    /\ unwound' = 1
    /\ pc' = "fs_raised"
    /\ UNCHANGED <<fs_tree, fs_where, ctx, fs_i, fs_j, fs_log, NotFrames>>

\* A search that goes on to the next f1 before the iframes inside f1.
FS_Frame1Flat ==
    /\ pc = "fs_f1"
    /\ fs_i <= Len(fs_tree)
    /\ ctx' = <<fs_i>>
    /\ fs_log' = Append(fs_log, <<fs_i>>)
    /\ IF PresentIn(<<fs_i>>)
         THEN /\ fs_result' = "found"
              /\ pc' = "fs_done"
              /\ UNCHANGED <<fs_i, fs_j>>
         ELSE /\ fs_result' = fs_result
              /\ fs_i' = fs_i + 1
              /\ pc' = "fs_f1"
              /\ UNCHANGED fs_j
    /\ UNCHANGED <<fs_tree, fs_where, unwound, NotFrames>>

\* driver.switch_to.default_content(); wait.until(presence) in the primary
\* document: "return" when found, "except TimeoutException: pass" otherwise.
FS_Top ==
    /\ pc = "fs_top"
    /\ ctx' = <<>>
    /\ fs_log' = Append(fs_log, <<>>)
    /\ IF PresentIn(<<>>)
         THEN /\ fs_result' = "found"
              /\ pc' = "fs_done"
         ELSE /\ fs_result' = fs_result
              /\ pc' = "fs_f1"
    /\ fs_i' = 1
    /\ UNCHANGED <<fs_tree, fs_where, fs_j, unwound, NotFrames>>

\* One turn of "for f1 in driver.find_elements(By.TAG_NAME, 'iframe')":
\* default_content(), frame(f1), wait; on a timeout the loop over the iframes
\* of f1 starts.
FS_Frame1 ==
    /\ pc = "fs_f1"
    /\ fs_i <= Len(fs_tree)
    /\ ctx' = <<fs_i>>
    /\ fs_log' = Append(fs_log, <<fs_i>>)
    /\ IF PresentIn(<<fs_i>>)
         THEN /\ fs_result' = "found"
              /\ pc' = "fs_done"
              /\ fs_j' = fs_j
         ELSE /\ fs_result' = fs_result
              /\ pc' = "fs_f2"
              /\ fs_j' = 1
    /\ UNCHANGED <<fs_tree, fs_where, fs_i, unwound, NotFrames>>

\* One turn of "for f2 in driver.find_elements(By.TAG_NAME, 'iframe')" inside
\* f1: default_content(), frame(f1), frame(f2), wait; "continue" on a timeout.
FS_Frame2 ==
    /\ pc = "fs_f2"
    /\ fs_j <= fs_tree[fs_i]
    /\ ctx' = <<fs_i, fs_j>>
    /\ fs_log' = Append(fs_log, <<fs_i, fs_j>>)
    /\ IF PresentIn(<<fs_i, fs_j>>)
         THEN /\ fs_result' = "found"
              /\ pc' = "fs_done"
              /\ fs_j' = fs_j
         ELSE /\ fs_result' = fs_result
              /\ pc' = "fs_f2"
              /\ fs_j' = fs_j + 1
    /\ UNCHANGED <<fs_tree, fs_where, fs_i, unwound, NotFrames>>

\* The loop over f2 is exhausted: the next f1.
FS_NextFrame1 ==
    /\ pc = "fs_f2"
    /\ fs_j > fs_tree[fs_i]
    /\ fs_i' = fs_i + 1
    /\ pc' = "fs_f1"
    /\ UNCHANGED <<fs_tree, fs_where, ctx, fs_j, fs_log, fs_result, unwound, NotFrames>>

\* The loop over f1 is exhausted: driver.switch_to.default_content();
\* raise NoSuchElementException(...).
FS_NotFound ==
    /\ pc = "fs_f1"
    /\ fs_i > Len(fs_tree)
    /\ ctx' = <<>>
    /\ fs_result' = "NoSuchElementException"
    /\ unwound' = 1
    /\ pc' = "fs_raised"
    /\ UNCHANGED <<fs_tree, fs_where, fs_i, fs_j, fs_log, NotFrames>>

\* part1_login calls switch_to_frame_containing outside any try: the exception
\* leaves part1_login too and reaches the except clause of run_bot.
FS_LeavesLogin ==
    /\ pc = "fs_raised"
    /\ unwound' = 2
    /\ pc' = "fs_rb_except"
    /\ UNCHANGED <<fs_tree, fs_where, ctx, fs_i, fs_j, fs_log, fs_result, NotFrames>>

\* Frame paths of a page whose documents hold up to MaxFrames iframes each,
\* down to the third level of nesting.
FramePaths == UNION {[1..d -> 1..MaxFrames] : d \in 0..3}

\* part1_login has loaded LOGIN_URL (the driver is in the primary document)
\* and calls switch_to_frame_containing(driver, email_loc, ...).
InitFrames ==
    /\ prog = "frames"
    /\ pc = "fs_top"
    /\ fs_tree \in UNION {[1..n -> 0..MaxFrames] : n \in 0..MaxFrames}
    /\ fs_where \in {{}} \cup
          {{c} : c \in {q \in FramePaths :
                             \/ q = <<>>
                             \/ /\ q[1] <= Len(fs_tree)
                                /\ Len(q) >= 2 => q[2] <= fs_tree[q[1]]}}
    /\ ctx = <<>>
    /\ fs_i = 1
    /\ fs_j = 1
    /\ fs_log = <<>>
    /\ fs_result = "none"
    /\ unwound = 0
    /\ LocatorIdle
    /\ UrlIdle
    /\ click_log = <<>>
    /\ click_result = "none"
    /\ click_ret = "top"
    /\ before_state = NoState
    /\ after_state = NoState
    /\ next_btn = "none"
    /\ clicked = FALSE
    /\ click_target = "none"
    /\ elapsed = 0
    /\ np_result = "none"
    /\ JobsIdle

NextFrames ==
    \/ FS_Top
    \/ FS_Frame1
    \/ FS_Frame2
    \/ FS_NextFrame1
    \/ FS_NotFound
    \/ FS_LeavesLogin

SpecFrames == InitFrames /\ [][NextFrames]_vars

(***************************************************************************)
(* Candidate locator lists: any(safe_click(driver, loc, ...) for loc in    *)
(* ...), the Sign In lookup of part1_login, the Israel label lookup of     *)
(* part2 and the Terms-and-Conditions fallback 10.c of the Apply flow      *)
(***************************************************************************)
\* Everything a candidate lookup leaves alone.
NotLocators == <<prog, np_vars, frame_vars, url_vars, jobs_vars>>

\* What a locator matches: nothing, or elements that are in the page from
\* second `at` on, of which the first, only another one, or none is displayed.
NoMatch == [match |-> FALSE, at |-> 0, shown |-> "none"]
Candidates == {NoMatch} \cup {[match |-> TRUE, at |-> t, shown |-> v] :
                                 t \in {0, LateAt}, v \in {"none", "first", "other"}}

Exceptions == {"NoSuchElementException", "WebDriverException"}

\* EC.presence_of_element_located(loc)
Present(c) == c.match

\* EC.element_to_be_clickable(loc): the first match is displayed and enabled
Clickable(c) == c.match /\ c.shown = "first"

\* WebDriverWait(driver, lr_timeout).until(cond) begun at second t0 on the
\* elements c: does it return an element, and when does it end.
WaitReturns(cond, c, t0) == cond /\ c.at <= t0 + lr_timeout
WaitEnds(cond, c, t0) == IF WaitReturns(cond, c, t0) THEN MaxOf(t0, c.at) ELSE t0 + lr_timeout

\* The loop goes on with the next candidate.
NextCandidate(outcome) ==
    /\ lr_tried' = Append(lr_tried, [cand |-> lr_k, outcome |-> outcome, stages |-> <<>>])
    /\ lr_k' = lr_k + 1
    /\ lr_el' = NoElement
    /\ pc' = "lr_wait"
    /\ UNCHANGED <<lr_result, click_vars>>

\* The wait returned element el and robust_click(driver, el) is called.
ClickCandidate(el) ==
    /\ lr_el' = el
    /\ pc' = "rc_native"
    /\ UNCHANGED <<lr_tried, lr_k, lr_result, click_vars>>

\* An exception the loop does not catch leaves the lookup.
LookupRaises(exc) ==
    /\ lr_result' = exc
    /\ lr_el' = NoElement
    /\ pc' = "lr_raised"
    /\ UNCHANGED <<lr_tried, lr_k, click_vars>>

\* A safe_click that lets the TimeoutException of its wait out.
LR_SafeClickRaises ==
    /\ pc = "lr_wait"
    /\ lr_mode = "any_safe_click"
    /\ lr_k <= Len(lr_locs)
    /\ LET c == lr_locs[lr_k] IN
       \E err \in BOOLEAN :
          /\ lr_clock' = IF err THEN lr_clock ELSE WaitEnds(Clickable(c), c, lr_clock)
          /\ IF err THEN NextCandidate("error")
             ELSE IF WaitReturns(Clickable(c), c, lr_clock)
                    THEN ClickCandidate([cand |-> lr_k, displayed |-> TRUE])
                    ELSE LookupRaises("WebDriverException")
    /\ UNCHANGED <<lr_mode, lr_locs, lr_timeout>>
    /\ UNCHANGED NotLocators

\* A Sign In lookup that takes the element without looking at is_displayed().
LR_SignInNoDisplayCheck ==
    /\ pc = "lr_wait"
    /\ lr_mode = "sign_in"
    /\ lr_k <= Len(lr_locs)
    /\ LET c == lr_locs[lr_k] IN
       \E err \in BOOLEAN :
          /\ lr_clock' = IF err THEN lr_clock ELSE WaitEnds(Present(c), c, lr_clock)
          /\ IF err THEN LookupRaises("WebDriverException")
             ELSE IF WaitReturns(Present(c), c, lr_clock)
                    THEN /\ lr_el' = [cand |-> lr_k, displayed |-> (c.shown = "first")]
                         /\ lr_tried' = Append(lr_tried,
                               [cand |-> lr_k, outcome |-> "selected", stages |-> <<>>])
                         /\ lr_result' = "found"
                         /\ pc' = "lr_done"
                         /\ UNCHANGED <<lr_k, click_vars>>
                    ELSE NextCandidate("timeout")
    /\ UNCHANGED <<lr_mode, lr_locs, lr_timeout>>
    /\ UNCHANGED NotLocators

\* A chain that evaluates every candidate: any([safe_click(...) for ...]).
LR_ClickReturnNoStop ==
    /\ pc = "rc_return"
    /\ click_ret = "locator"
    /\ lr_tried' = Append(lr_tried,
          [cand |-> lr_k,
           outcome |-> IF click_result = "true" THEN "clicked" ELSE "click_failed",
           stages |-> click_log])
    /\ lr_result' = IF click_result = "true" THEN "true" ELSE lr_result
    /\ lr_k' = lr_k + 1
    /\ pc' = "lr_wait"
    /\ click_log' = <<>>
    /\ click_result' = "none"
    /\ UNCHANGED <<lr_mode, lr_locs, lr_timeout, lr_clock, lr_el, click_ret>>
    /\ UNCHANGED NotLocators

\* safe_click(driver, loc, timeout) up to its call of robust_click: the wait
\* for a clickable element; a timeout, like any other exception, makes
\* safe_click return False, and any(...) goes on with the next candidate.
LR_SafeClick ==
    /\ pc = "lr_wait"
    /\ lr_mode = "any_safe_click"
    /\ lr_k <= Len(lr_locs)
    /\ LET c == lr_locs[lr_k] IN
       \E err \in BOOLEAN :
          /\ lr_clock' = IF err THEN lr_clock ELSE WaitEnds(Clickable(c), c, lr_clock)
          /\ IF err THEN NextCandidate("error")
             ELSE IF WaitReturns(Clickable(c), c, lr_clock)
                    THEN ClickCandidate([cand |-> lr_k, displayed |-> TRUE])
                    ELSE NextCandidate("timeout")
    /\ UNCHANGED <<lr_mode, lr_locs, lr_timeout>>
    /\ UNCHANGED NotLocators

\* part1_login, "for loc in sign_in_locators": wait for presence, take the
\* element if it is displayed; only TimeoutException is caught.
LR_SignIn ==
    /\ pc = "lr_wait"
    /\ lr_mode = "sign_in"
    /\ lr_k <= Len(lr_locs)
    /\ LET c == lr_locs[lr_k] IN
       \E err \in BOOLEAN :
          /\ lr_clock' = IF err THEN lr_clock ELSE WaitEnds(Present(c), c, lr_clock)
          /\ IF err THEN LookupRaises("WebDriverException")
             ELSE IF WaitReturns(Present(c), c, lr_clock)
                    THEN IF c.shown = "first"
                           THEN /\ lr_el' = [cand |-> lr_k, displayed |-> TRUE]
                                /\ lr_tried' = Append(lr_tried,
                                      [cand |-> lr_k, outcome |-> "selected", stages |-> <<>>])
                                /\ lr_result' = "found"
                                /\ pc' = "lr_done"
                                /\ UNCHANGED <<lr_k, click_vars>>
                           ELSE NextCandidate("hidden")
                    ELSE NextCandidate("timeout")
    /\ UNCHANGED <<lr_mode, lr_locs, lr_timeout>>
    /\ UNCHANGED NotLocators

\* part2, "for loc in israel_label_locators": wait for presence, then the
\* first displayed element of find_elements, or else the element of the wait.
LR_IsraelLabel ==
    /\ pc = "lr_wait"
    /\ lr_mode = "israel_label"
    /\ lr_k <= Len(lr_locs)
    /\ LET c == lr_locs[lr_k] IN
       \E err \in BOOLEAN :
          /\ lr_clock' = IF err THEN lr_clock ELSE WaitEnds(Present(c), c, lr_clock)
          /\ IF err THEN LookupRaises("WebDriverException")
             ELSE IF WaitReturns(Present(c), c, lr_clock)
                    THEN /\ lr_el' = [cand |-> lr_k, displayed |-> (c.shown # "none")]
                         /\ lr_tried' = Append(lr_tried,
                               [cand |-> lr_k, outcome |-> "selected", stages |-> <<>>])
                         /\ lr_result' = "found"
                         /\ pc' = "lr_done"
                         /\ UNCHANGED <<lr_k, click_vars>>
                    ELSE NextCandidate("timeout")
    /\ UNCHANGED <<lr_mode, lr_locs, lr_timeout>>
    /\ UNCHANGED NotLocators

\* Apply flow 10.c, "for loc in tc_try_locs": wait for presence, scroll to
\* the element and robust_click it.
LR_TermsCheckbox ==
    /\ pc = "lr_wait"
    /\ lr_mode = "tc_checkbox"
    /\ lr_k <= Len(lr_locs)
    /\ LET c == lr_locs[lr_k] IN
       \E err \in BOOLEAN :
          /\ lr_clock' = IF err THEN lr_clock ELSE WaitEnds(Present(c), c, lr_clock)
          /\ IF err THEN LookupRaises("WebDriverException")
             ELSE IF WaitReturns(Present(c), c, lr_clock)
                    THEN ClickCandidate([cand |-> lr_k, displayed |-> (c.shown = "first")])
                    ELSE NextCandidate("timeout")
    /\ UNCHANGED <<lr_mode, lr_locs, lr_timeout>>
    /\ UNCHANGED NotLocators

\* robust_click returns into safe_click (which returns its value to any) or
\* into the loop 10.c: True ends the loop, False goes on with the next candidate.
LR_ClickReturn ==
    /\ pc = "rc_return"
    /\ click_ret = "locator"
    /\ lr_tried' = Append(lr_tried,
          [cand |-> lr_k,
           outcome |-> IF click_result = "true" THEN "clicked" ELSE "click_failed",
           stages |-> click_log])
    /\ IF click_result = "true"
         THEN /\ lr_result' = "true"
              /\ pc' = "lr_done"
              /\ UNCHANGED <<lr_k, lr_el>>
         ELSE /\ lr_k' = lr_k + 1
              /\ lr_el' = NoElement
              /\ pc' = "lr_wait"
              /\ UNCHANGED lr_result
    /\ click_log' = <<>>                      \* robust_click's frame is gone
    /\ click_result' = "none"
    /\ UNCHANGED <<lr_mode, lr_locs, lr_timeout, lr_clock, click_ret>>
    /\ UNCHANGED NotLocators

\* The list is exhausted: any(...) is False, "checked" stays False, and the
\* Sign In and Israel lookups raise NoSuchElementException.
LR_Exhausted ==
    /\ pc = "lr_wait"
    /\ lr_k > Len(lr_locs)
    /\ IF lr_mode \in {"sign_in", "israel_label"}
         THEN lr_result' = "NoSuchElementException" /\ pc' = "lr_raised"
         ELSE lr_result' = (IF lr_result = "true" THEN "true" ELSE "false") /\ pc' = "lr_done"
    /\ UNCHANGED <<lr_mode, lr_locs, lr_timeout, lr_k, lr_clock, lr_tried, lr_el, click_vars>>
    /\ UNCHANGED NotLocators

\* The timeout of each wait of a lookup.
TimeoutsOf(mode) ==
    IF mode = "any_safe_click" THEN {CandidateWait, SafeClickTimeout}
    ELSE IF mode = "israel_label" THEN {default_wait_s}
    ELSE {CandidateWait}

InitLocators ==
    /\ prog = "locators"
    /\ pc = "lr_wait"
    /\ lr_mode \in {"any_safe_click", "sign_in", "israel_label", "tc_checkbox"}
    /\ lr_locs \in UNION {[1..n -> Candidates] : n \in 1..MaxLocs}
    /\ lr_timeout \in TimeoutsOf(lr_mode)
    /\ lr_k = 1
    /\ lr_clock = 0
    /\ lr_tried = <<>>
    /\ lr_el = NoElement
    /\ lr_result = "none"
    /\ click_log = <<>>
    /\ click_result = "none"
    /\ click_ret = "locator"
    /\ before_state = NoState
    /\ after_state = NoState
    /\ next_btn = "none"
    /\ clicked = FALSE
    /\ click_target = "none"
    /\ elapsed = 0
    /\ np_result = "none"
    /\ FramesIdle
    /\ UrlIdle
    /\ JobsIdle

NextLocators ==
    \/ LR_SafeClick
    \/ LR_SignIn
    \/ LR_IsraelLabel
    \/ LR_TermsCheckbox
    \/ RC_Native
    \/ RC_Js
    \/ RC_Chains
    \/ LR_ClickReturn
    \/ LR_Exhausted

SpecLocators == InitLocators /\ [][NextLocators]_vars

(***************************************************************************)
(* Human-escalation pauses: debug_pause (src/Job_Bot_Nvidia_main.py) and   *)
(* the "try: input() except Exception: pass" pauses of the IAI script      *)
(***************************************************************************)
\* The code reaches a pause after the step at position from failed; to is the
\* position of the statement that follows the pause in the code.
EnterPause(from, to) ==
    /\ pc' = "pause"
    /\ pause_from' = from
    /\ pause_to' = to
    /\ UNCHANGED <<console, last_pause>>

\* What a pause leaves as it is: everything but the position of the code.
PauseFrame ==
    UNCHANGED <<prog, count_vars, engine_vars, browser_vars, site_vars, iai_vars, loop_vars,
                p3_vars, obs_vars, console, fatal>>

\* A pause that is left whatever the console does.
PauseAckNotAwaited ==
    /\ pc = "pause"
    /\ pc' = pause_to
    /\ pause_from' = "none"
    /\ pause_to' = "none"
    /\ last_pause' = "no_input"
    /\ PauseFrame

\* A pause whose end changes what earlier steps produced.
PauseAckResets ==
    /\ pc = "pause"
    /\ console = "tty"
    /\ pc' = pause_to
    /\ pause_from' = "none"
    /\ pause_to' = "none"
    /\ last_pause' = "ack"
    /\ applied_count' = 0
    /\ UNCHANGED <<prog, count_vars, engine_vars, browser_vars, site_vars, iai_vars, loop_vars,
                   base_tab, obs_vars, console, fatal>>

\* input() returns: the operator pressed Enter.  The code goes on with the
\* statement after the pause.
Pause_Ack ==
    /\ pc = "pause"
    /\ console = "tty"
    /\ pc' = pause_to
    /\ pause_from' = "none"
    /\ pause_to' = "none"
    /\ last_pause' = "ack"
    /\ PauseFrame

\* input() raises EOFError (no console input): debug_pause sleeps 5 s, the IAI
\* pauses pass; either way the code goes on with the statement after the pause.
Pause_NoInput ==
    /\ pc = "pause"
    /\ console = "closed"
    /\ pc' = pause_to
    /\ pause_from' = "none"
    /\ pause_to' = "none"
    /\ last_pause' = "no_input"
    /\ PauseFrame

(***************************************************************************)
(* IAIApplicationBot (src/bot_Job_IAI_main.py)                             *)
(***************************************************************************)
\* A compute_next_list_url without the limits on X.
ComputeNextNoLimit(u) ==
    IF u.host # BASE_LIST_URL.host THEN None
    ELSE IF u.path # "/jobs/" THEN None
    ELSE IF u.pr # "41" THEN None
    ELSE IF u.pgKind \in {"absent", "blank"} THEN ListUrl("int", 2)
    ELSE IF u.pgKind # "int" THEN None
    ELSE ListUrl("int", u.pgVal + 1)

\* compute_next_list_url(current_url); None when no next URL is computed.
\* urlparse raises ValueError on a malformed netloc (host "["), which the outer
\* except turns into None; parse_qs leaves out a parameter whose value is
\* blank ("pg="), so that '"pg" not in qs' holds for it as for an absent pg.
compute_next_list_url(u) ==
    IF u.host = "[" THEN None
    ELSE IF u.host # BASE_LIST_URL.host THEN None
    ELSE IF u.path # "/jobs/" THEN None
    ELSE IF u.pr # "41" THEN None
    ELSE IF u.pgKind \in {"absent", "blank"} THEN ListUrl("int", 2)
    ELSE IF u.pgKind # "int" THEN None
    ELSE IF u.pgVal < 1 \/ u.pgVal > PgLimit THEN None
    ELSE ListUrl("int", u.pgVal + 1)

\* URLs a call of compute_next_list_url is given: hosts, paths and pr values
\* that match or not, a netloc urlparse rejects, and a pg parameter that is
\* absent, blank ("pg="), not a number, or a number around the two limits.
PgInputs ==
    {<<"absent", 0>>, <<"blank", 0>>, <<"text", 0>>}
        \cup {<<"int", x>> : x \in {-1, 0, 1, 2, PgLimit - 1, PgLimit, PgLimit + 1}}
UrlInputs ==
    {Url(h, p, r, g[1], g[2]) : h \in {"jobs.iai.co.il", "www.iai.co.il", "["},
                                p \in {"/jobs/", "/thank-you/"},
                                r \in {"41", "7", ""},
                                g \in PgInputs}

\* Everything a call of compute_next_list_url leaves alone.
NotUrl == <<prog, click_vars, np_vars, frame_vars, locator_vars, jobs_vars>>

\* One call: every exception inside is caught by the outer "except Exception:
\* return None", so the call always returns.
CN_Call ==
    /\ pc = "cn_call"
    /\ cn_ret' = compute_next_list_url(cn_url)
    /\ cn_out' = "returned"
    /\ pc' = "cn_done"
    /\ UNCHANGED cn_url
    /\ UNCHANGED NotUrl

InitNextUrl ==
    /\ prog = "nexturl"
    /\ pc = "cn_call"
    /\ cn_url \in UrlInputs
    /\ cn_out = "none"
    /\ cn_ret = None
    /\ click_log = <<>>
    /\ click_result = "none"
    /\ click_ret = "top"
    /\ before_state = NoState
    /\ after_state = NoState
    /\ next_btn = "none"
    /\ clicked = FALSE
    /\ click_target = "none"
    /\ elapsed = 0
    /\ np_result = "none"
    /\ FramesIdle
    /\ LocatorIdle
    /\ JobsIdle

NextNextUrl == CN_Call

SpecNextUrl == InitNextUrl /\ [][NextNextUrl]_vars

\* URLs the browser may show once driver.get(u) has returned: u itself, or the
\* URL the site redirects to (the first list page, or a page that is no list).
\* Redirects are explored for the requests of the first MaxRedirectPage pages.
Landing(u) ==
    {u} \cup (IF redirects < MaxRedirects /\ PageOf(u) <= MaxRedirectPage
               THEN {BASE_LIST_URL, ErrorUrl}
               ELSE {})

\* Job cards scrape_jobs_on_page can find on the page at u; TRUE = the card has
\* an application link.  Pages after the site's last list page have no card,
\* and the model follows MaxJobs cards in all.
PageJobs(u) ==
    IF IsListUrl(u) /\ PageOf(u) <= site_last
      THEN UNION {[1..n -> BOOLEAN] : n \in 0..(MaxJobs - cards_shown)}
      ELSE {<<>>}

\* A handle for a new tab: the smallest number no open tab uses.
FreshHandle ==
    CHOOSE h \in 1..(Len(window_handles) + 1) :
        /\ h \notin Range(window_handles)
        /\ \A g \in 1..(h - 1) : g \in Range(window_handles)

\* goto_list_url(url), given the URL the browser lands on.
GotoListUrl(url, landing) ==
    /\ redirects' = IF landing = url THEN redirects ELSE redirects + 1
    /\ tab_url' = [tab_url EXCEPT ![current] = landing]
    /\ main_handle' = current
    /\ last_list_url' = landing
    /\ visited_urls' = visited_urls \cup {landing}
    /\ top_page' = IF IsListUrl(landing) THEN MaxOf(top_page, PageOf(landing)) ELSE top_page

\* run(): the initial URL from --start, then goto_list_url(initial_url).
\* driver.get may raise (page load timeout); nothing in run() catches it.
IAI_Start ==
    /\ pc = "iai_start"
    /\ LET initial_url == IF start_page <= 1 THEN BASE_LIST_URL
                                             ELSE ListUrl("int", start_page)
       IN \E out \in {"ok", "raises"} :
            IF out = "ok"
              THEN /\ \E landing \in Landing(initial_url) : GotoListUrl(initial_url, landing)
                   /\ pc' = "iai_scrape"
                   /\ fatal' = fatal
              ELSE /\ pc' = "crashed"
                   /\ fatal' = "unprompted"
                   /\ UNCHANGED <<tab_url, main_handle, last_list_url, visited_urls,
                                  top_page, redirects>>
    /\ UNCHANGED <<prog, count_vars, engine_vars, window_handles, current, site_last, cards_shown, list_captcha, run_cap,
                   start_page, max_pages, loop_vars, p3_vars, job_tab, job_open, kept_tabs,
                   pages_processed, revisit_call, console, pause_from, pause_to, last_pause>>

\* jobs = self.scrape_jobs_on_page()
IAI_Scrape ==
    /\ pc = "iai_scrape"
    /\ \E js \in PageJobs(tab_url[current]) :
         /\ jobs' = js
         /\ cards_shown' = cards_shown + Len(js)
    /\ job_i' = 1
    /\ pages_processed' = pages_processed + 1
    /\ pc' = "iai_job"
    /\ UNCHANGED <<prog, count_vars, engine_vars, gate_vars, browser_vars, site_last, redirects, list_captcha, run_cap, iai_vars, success,
                   captcha_tab, p3_vars, job_tab, job_open, kept_tabs, revisit_call, top_page>>

\* apply_to_jobs_on_page: "if not job.application_url: continue"
IAI_JobSkip ==
    /\ pc = "iai_job"
    /\ job_i <= Len(jobs)
    /\ ~jobs[job_i]
    /\ job_i' = job_i + 1
    /\ UNCHANGED <<prog, count_vars, pc, engine_vars, gate_vars, browser_vars, site_vars, iai_vars, jobs, success,
                   captcha_tab, p3_vars, obs_vars>>

\* try: self.open_in_new_tab(job.application_url).  window.open may raise before
\* a tab exists; a wait or scroll may raise once the new tab is the active one.
IAI_OpenTab ==
    /\ pc = "iai_job"
    /\ job_i <= Len(jobs)
    /\ jobs[job_i]
    /\ job_open' = TRUE
    /\ \E out \in {"ok", "no_tab", "raises_in_tab"} :
         /\ pause_from' = IF out = "ok" THEN pause_from ELSE "iai_job"
         /\ IF out = "no_tab"
              THEN /\ job_tab' = 0
                   /\ pc' = "iai_except"
                   /\ UNCHANGED browser_vars
              ELSE LET h == FreshHandle
                   IN /\ window_handles' = Append(window_handles, h)
                      /\ current' = h
                      /\ tab_url' = [g \in Range(window_handles) \cup {h} |->
                                        IF g = h THEN AppUrl ELSE tab_url[g]]
                      /\ job_tab' = h
                      /\ pc' = IF out = "ok" THEN "iai_fill" ELSE "iai_except"
    /\ UNCHANGED <<prog, count_vars, engine_vars, site_vars, iai_vars, loop_vars, p3_vars, kept_tabs,
                   pages_processed, revisit_call, top_page, console, pause_to, last_pause,
                   fatal>>

\* fill_and_submit_application up to the submission step: the field helpers
\* swallow what they expect; any other driver error reaches the except clause.
IAI_Fill ==
    /\ pc = "iai_fill"
    /\ \E out \in {"ok", "raises"} :
         /\ pc' = IF out = "ok" THEN "iai_submit" ELSE "iai_except"
         /\ pause_from' = IF out = "ok" THEN pause_from ELSE "iai_fill"
    /\ UNCHANGED <<prog, count_vars, engine_vars, browser_vars, site_vars, iai_vars, loop_vars,
                   p3_vars, obs_vars, console, pause_to, last_pause, fatal>>

\* _submit_with_captcha_and_wait_thank_you up to its first wait: the submit
\* button is found and clicked; or it cannot be clicked and the operator is
\* asked to click it; or it is not found and the operator is asked to submit
\* by hand.  The form may show a reCAPTCHA widget.
IAI_Submit ==
    /\ pc = "iai_submit"
    /\ \E btn \in {"found", "click_fails", "not_found"}, cap \in BOOLEAN :
         /\ captcha_tab' = IF cap THEN current ELSE 0
         /\ CASE btn = "found" ->
                   /\ pc' = "iai_wait1"
                   /\ UNCHANGED <<console, pause_from, pause_to, last_pause>>
              [] btn = "click_fails" -> EnterPause("iai_submit", "iai_wait1")
              [] btn = "not_found" -> EnterPause("iai_submit", "iai_waitmanual")
    /\ UNCHANGED <<prog, count_vars, engine_vars, browser_vars, site_vars, iai_vars, jobs, job_i,
                   success, p3_vars, obs_vars, fatal>>

\* The tab _wait_for_thank_you_redirect stops on: the current tab if its URL has
\* /thank-you/, else the first tab of window_handles whose URL has it (0 = none).
ThankYouTab(url) ==
    IF IsThankYou(url[current]) THEN current
    ELSE LET hits == {i \in 1..Len(window_handles) : IsThankYou(url[window_handles[i]])}
         IN IF hits = {} THEN 0
            ELSE window_handles[CHOOSE i \in hits : \A j \in hits : i <= j]

\* _wait_for_thank_you_redirect(max_wait).  While it polls, one of the
\* application tabs (the job's, or one kept from an earlier job) may be
\* redirected to /thank-you/; a redirect that comes during the last
\* time.sleep(1) is not seen, as the loop ends without another look.  On
\* success the tab found stays the active one; on timeout the list tab is made
\* active and False is returned.
WaitForThankYou(timeout_pc) ==
    \E r \in {0} \cup (Range(window_handles) \ {main_handle}), seen \in BOOLEAN :
        LET url == IF r = 0 THEN tab_url ELSE [tab_url EXCEPT ![r] = ThankUrl]
            found == IF seen THEN ThankYouTab(url) ELSE ThankYouTab(tab_url)
        IN /\ seen \/ r # 0
           /\ tab_url' = url
           /\ IF found # 0
                THEN /\ success' = TRUE
                     /\ current' = found
                     /\ pc' = "iai_finish"
                ELSE /\ success' = FALSE
                     /\ current' = IF main_handle # 0 /\ main_handle \in Range(window_handles)
                                     THEN main_handle
                                     ELSE window_handles[Len(window_handles)]
                     /\ pc' = timeout_pc

\* success = self._wait_for_thank_you_redirect(initial_wait)
IAI_Wait1 ==
    /\ pc = "iai_wait1"
    /\ WaitForThankYou("iai_captcha")
    /\ UNCHANGED <<prog, count_vars, engine_vars, gate_vars, window_handles, site_vars, iai_vars, jobs, job_i,
                   captcha_tab, p3_vars, obs_vars>>

\* _recaptcha_visible(), asked of the active tab.
RecaptchaVisible ==
    /\ ~IsThankYou(tab_url[current])
    /\ \/ current = captcha_tab
       \/ current = main_handle /\ list_captcha

\* "if self._recaptcha_visible(): ... input()": the pause for the CAPTCHA; the
\* second wait follows.
IAI_Captcha ==
    /\ pc = "iai_captcha"
    /\ IF RecaptchaVisible
         THEN EnterPause("iai_captcha", "iai_wait2")
         ELSE /\ pc' = "iai_wait2"
              /\ UNCHANGED <<console, pause_from, pause_to, last_pause>>
    /\ UNCHANGED <<prog, count_vars, engine_vars, browser_vars, site_vars, iai_vars, loop_vars,
                   p3_vars, obs_vars, fatal>>

\* success = self._wait_for_thank_you_redirect(remaining)
IAI_Wait2 ==
    /\ pc = "iai_wait2"
    /\ WaitForThankYou("iai_finish")
    /\ UNCHANGED <<prog, count_vars, engine_vars, gate_vars, window_handles, site_vars, iai_vars, jobs, job_i,
                   captcha_tab, p3_vars, obs_vars>>

\* Submit button not found: after the operator's Enter,
\* return self._wait_for_thank_you_redirect(wait_total)
IAI_WaitManual ==
    /\ pc = "iai_waitmanual"
    /\ WaitForThankYou("iai_finish")
    /\ UNCHANGED <<prog, count_vars, engine_vars, gate_vars, window_handles, site_vars, iai_vars, jobs, job_i,
                   captcha_tab, p3_vars, obs_vars>>

\* except Exception: traceback, "[PAUSE]", input(), success = False; the
\* finally clause follows the pause.
IAI_ExceptPause ==
    /\ pc = "iai_except"
    /\ success' = FALSE
    /\ EnterPause(pause_from, "iai_finish")
    /\ UNCHANGED <<prog, count_vars, engine_vars, browser_vars, site_vars, iai_vars, jobs, job_i,
                   captcha_tab, p3_vars, obs_vars, fatal>>

\* A finish_tab that never calls driver.close(): what the bound on the open
\* tabs is compared with.
IAI_FinishTabNoClose ==
    /\ pc = "iai_finish"
    /\ LET target == IF main_handle # 0 /\ main_handle \in Range(window_handles)
                       THEN main_handle
                       ELSE window_handles[1]
       IN current' = target
    /\ UNCHANGED <<window_handles, tab_url>>
    /\ kept_tabs' = IF ~success /\ job_tab \in Range(window_handles)
                      THEN kept_tabs + 1 ELSE kept_tabs
    /\ job_open' = FALSE
    /\ job_i' = job_i + 1
    /\ captcha_tab' = 0
    /\ pc' = "iai_job"
    /\ UNCHANGED <<prog, count_vars, engine_vars, gate_vars, site_vars, iai_vars, jobs, success, p3_vars, job_tab,
                   pages_processed, revisit_call, top_page>>

\* A finish_tab that closes the active tab whatever success is.
IAI_FinishTabClosesAlways ==
    /\ pc = "iai_finish"
    /\ LET closes == Len(window_handles) > 1 /\ current # 0
           handles1 == IF closes THEN SelectSeq(window_handles, LAMBDA h : h # current)
                                 ELSE window_handles
           target == IF main_handle # 0 /\ main_handle \in Range(handles1)
                       THEN main_handle
                       ELSE IF handles1 # <<>> THEN handles1[1] ELSE 0
       IN /\ window_handles' = handles1
          /\ tab_url' = [g \in Range(handles1) |-> tab_url[g]]
          /\ current' = IF target # 0 THEN target ELSE current
    /\ kept_tabs' = kept_tabs
    /\ job_open' = FALSE
    /\ job_i' = job_i + 1
    /\ captcha_tab' = 0
    /\ pc' = "iai_job"
    /\ UNCHANGED <<prog, count_vars, engine_vars, gate_vars, site_vars, iai_vars, jobs, success, p3_vars, job_tab,
                   pages_processed, revisit_call, top_page>>

\* finish_tab(success), from the finally clause; then the next job.
IAI_FinishTab ==
    /\ pc = "iai_finish"
    /\ LET closes == success /\ Len(window_handles) > 1 /\ current # 0
           handles1 == IF closes THEN SelectSeq(window_handles, LAMBDA h : h # current)
                                 ELSE window_handles
           target == IF main_handle # 0 /\ main_handle \in Range(handles1)
                       THEN main_handle
                       ELSE IF handles1 # <<>> THEN handles1[1] ELSE 0
       IN /\ window_handles' = handles1
          /\ tab_url' = [g \in Range(handles1) |-> tab_url[g]]
          /\ current' = IF target # 0 THEN target ELSE current
    /\ kept_tabs' = IF ~success /\ job_tab \in Range(window_handles)
                      THEN kept_tabs + 1 ELSE kept_tabs
    /\ job_open' = FALSE
    /\ job_i' = job_i + 1
    /\ captcha_tab' = 0
    /\ pc' = "iai_job"
    /\ UNCHANGED <<prog, count_vars, engine_vars, gate_vars, site_vars, iai_vars, jobs, success, p3_vars, job_tab,
                   pages_processed, revisit_call, top_page>>

\* "pages_done >= self.max_pages + (self.start_page - 1)" when --pages > 0
PageLimitReached ==
    /\ max_pages > 0
    /\ Cardinality({u \in visited_urls : IsListUrl(u)}) >= max_pages + (start_page - 1)

\* A run() without the test on visited_urls.
AlreadyVisitedNever(u) == FALSE

\* "if next_url in self.visited_urls"
AlreadyVisited(u) == u \in visited_urls

\* run(): all jobs of the page are done; read the current URL, compute the next
\* one, stop or load it in the same tab.
IAI_PageDone ==
    /\ pc = "iai_job"
    /\ job_i > Len(jobs)
    /\ LET cur_url == tab_url[current]
           next_url == compute_next_list_url(cur_url)
       IN IF next_url = None \/ PageLimitReached \/ AlreadyVisited(next_url)
            THEN /\ pc' = "done"
                 /\ UNCHANGED <<tab_url, iai_vars, revisit_call, top_page, redirects>>
            ELSE /\ pages_processed < run_cap      \* the pages of a run that are followed
                 /\ revisit_call' = (revisit_call \/ next_url \in visited_urls)
                 /\ UNCHANGED <<start_page, max_pages>>
                 /\ \E out \in {"ok", "raises"} :
                      IF out = "ok"
                        THEN /\ \E landing \in Landing(next_url) :
                                    GotoListUrl(next_url, landing)
                             /\ pc' = "iai_scrape"
                        ELSE /\ last_list_url' = next_url
                             /\ pc' = "crashed"
                             /\ UNCHANGED <<tab_url, main_handle, visited_urls, top_page,
                                            redirects>>
    /\ fatal' = IF pc' = "crashed" THEN "unprompted" ELSE fatal
    /\ jobs' = <<>>                            \* the locals of the finished page
    /\ job_i' = 1
    /\ success' = FALSE
    /\ job_tab' = 0
    /\ UNCHANGED <<prog, count_vars, engine_vars, window_handles, current, site_last, cards_shown, list_captcha, run_cap,
                   captcha_tab, p3_vars, job_open, kept_tabs, pages_processed, console,
                   pause_from, pause_to, last_pause>>

(***************************************************************************)
(* part3_process_each_job_and_save (src/Job_Bot_Nvidia_main.py)            *)
(***************************************************************************)
\* run_bot: driver = build_driver(cfg), before the try block.
RB_Build ==
    /\ pc = "rb_build"
    /\ \E out \in {"ok", "raises"} :
         IF out = "ok"
           THEN pc' = "rb_login" /\ fatal' = fatal
           ELSE pc' = "crashed" /\ fatal' = "unprompted"
    /\ UNCHANGED <<prog, count_vars, engine_vars, browser_vars, site_vars, iai_vars, loop_vars,
                   p3_vars, obs_vars, console, pause_from, pause_to, last_pause>>

\* run_bot: part1_login(driver, creds, cfg), inside the try block.
RB_Login ==
    /\ pc = "rb_login"
    /\ \E out \in {"ok", "raises"} :
         IF out = "ok"
           THEN pc' = "rb_filter" /\ pause_from' = pause_from
           ELSE pc' = "rb_except" /\ pause_from' = "rb_login"
    /\ UNCHANGED <<prog, count_vars, engine_vars, browser_vars, site_vars, iai_vars, loop_vars,
                   p3_vars, obs_vars, console, pause_to, last_pause, fatal>>

\* run_bot: jobs = part2_select_israel_and_collect_20(driver, cfg); TRUE = the
\* job has a URL.
RB_Filter ==
    /\ pc = "rb_filter"
    /\ \E out \in {"ok", "raises"} :
         IF out = "ok"
           THEN /\ jobs' \in UNION {[1..n -> BOOLEAN] : n \in 0..MaxJobs}
                /\ pc' = "p3_start"
                /\ pause_from' = pause_from
           ELSE /\ jobs' = jobs
                /\ pc' = "rb_except"
                /\ pause_from' = "rb_filter"
    /\ UNCHANGED <<prog, count_vars, engine_vars, browser_vars, site_vars, iai_vars, job_i, success,
                   captcha_tab, p3_vars, obs_vars, console, pause_to, last_pause, fatal>>

\* run_bot: "except Exception as e: ... debug_pause(cfg, ...); return 1"
RB_Except ==
    /\ pc = "rb_except"
    /\ EnterPause(pause_from, "crashed")
    /\ fatal' = "prompted"
    /\ UNCHANGED <<prog, count_vars, engine_vars, browser_vars, site_vars, iai_vars, loop_vars,
                   p3_vars, obs_vars>>

\* base_tab = driver.current_window_handle; applied_count = 0
P3_Enter ==
    /\ pc = "p3_start"
    /\ base_tab' = current
    /\ applied_count' = 0
    /\ job_i' = 1
    /\ pc' = "p3_job"
    /\ UNCHANGED <<prog, count_vars, engine_vars, gate_vars, browser_vars, site_vars, iai_vars, jobs, success,
                   captcha_tab, obs_vars>>

\* "if not url: continue"
P3_Skip ==
    /\ pc = "p3_job"
    /\ job_i <= Len(jobs)
    /\ ~jobs[job_i]
    /\ job_i' = job_i + 1
    /\ UNCHANGED <<prog, count_vars, pc, engine_vars, gate_vars, browser_vars, site_vars, iai_vars, jobs, success,
                   captcha_tab, p3_vars, obs_vars>>

\* Open the job in a new tab and make it the active one.  These lines are
\* outside any try: when no second tab appears (window.open raises, or the 10 s
\* wait for a second handle times out) the exception leaves the function and
\* reaches the except clause of run_bot.
P3_Open ==
    /\ pc = "p3_job"
    /\ job_i <= Len(jobs)
    /\ jobs[job_i]
    /\ \E out \in {"ok", "raises"} :
         IF out = "ok"
           THEN LET h == FreshHandle
                IN /\ window_handles' = Append(window_handles, h)
                   /\ tab_url' = [g \in Range(window_handles) \cup {h} |->
                                     IF g = h THEN AppUrl ELSE tab_url[g]]
                   /\ current' = h       \* new_tab: the last handle that is not base_tab
                   /\ job_tab' = h
                   /\ job_open' = TRUE
                   /\ pc' = "p3_extract"
                   /\ pause_from' = pause_from
           ELSE /\ current' = base_tab   \* driver.switch_to.window(base_tab) was done
                /\ pc' = "rb_except"
                /\ pause_from' = "p3_job"
                /\ UNCHANGED <<window_handles, tab_url, job_tab, job_open>>
    /\ UNCHANGED <<prog, count_vars, engine_vars, site_vars, iai_vars, loop_vars, p3_vars, kept_tabs,
                   pages_processed, revisit_call, top_page, console, pause_to, last_pause,
                   fatal>>

\* The job tab closed by hand (the operator may do so when a step has failed).
TabClosedByHand ==
    /\ window_handles' = SelectSeq(window_handles, LAMBDA h : h # current)
    /\ tab_url' = [g \in Range(window_handles) \ {current} |-> tab_url[g]]

\* try: extract_job_page_details ... except: debug_pause.  The Apply flow
\* follows the pause.  The job tab may have been closed by hand.
P3_Extract ==
    /\ pc = "p3_extract"
    /\ \E out \in {"ok", "raises", "raises_tab_closed"} :
         /\ IF out = "raises_tab_closed" THEN TabClosedByHand
                                         ELSE UNCHANGED <<window_handles, tab_url>>
         /\ IF out = "ok"
              THEN /\ pc' = "p3_apply"
                   /\ UNCHANGED <<console, pause_from, pause_to, last_pause>>
              ELSE EnterPause("p3_extract", "p3_apply")
    /\ UNCHANGED <<prog, count_vars, engine_vars, current, site_vars, iai_vars, loop_vars, p3_vars,
                   obs_vars, fatal>>

\* An Apply flow that counts every job it was tried on.
P3_ApplyCountsAll ==
    /\ pc = "p3_apply"
    /\ \E out \in {"submitted", "skipped", "no_apply"} :
         /\ applied_count' = applied_count + 1
         /\ reviews' = IF out = "submitted" THEN reviews + 1 ELSE reviews
         /\ submits' = IF out = "submitted" THEN submits + 1 ELSE submits
         /\ UNCHANGED <<window_handles, tab_url>>
         /\ IF out \in {"submitted", "skipped"}
              THEN /\ pc' = "p3_close"
                   /\ UNCHANGED <<console, pause_from, pause_to, last_pause>>
              ELSE EnterPause("p3_apply", "p3_close")
    /\ UNCHANGED <<prog, engine_vars, current, site_vars, iai_vars, loop_vars, base_tab,
                   obs_vars, fatal>>

\* try: did_apply = apply_flow_for_current_job(...) ... except: debug_pause.
\* skipped: "View Application" is shown, False.  no_apply: the Apply button or
\* a button of steps 2 to 11 was not clicked, debug_pause, False.  The flows
\* that reach step 12 return True: submitted (the Submit click was issued),
\* submit_unclickable (robust_click and the JS click failed: debug_pause, then
\* "return True"), submit_missing (the wait for the Submit button or a script
\* raised: the except clause of step 12 prints and "return True" follows).
\* Closing the tab follows.  With the job tab gone nothing can be clicked.
P3_Apply ==
    /\ pc = "p3_apply"
    /\ \E out \in {"submitted", "submit_unclickable", "submit_missing", "skipped",
                   "no_apply", "raises", "raises_tab_closed"} :
         /\ (current \notin Range(window_handles)) => out \in {"skipped", "no_apply", "raises"}
         /\ LET step12 == out \in {"submitted", "submit_unclickable", "submit_missing"}
            IN /\ applied_count' = IF step12 THEN applied_count + 1 ELSE applied_count
               /\ reviews' = IF step12 THEN reviews + 1 ELSE reviews
         /\ submits' = IF out = "submitted" THEN submits + 1 ELSE submits
         /\ IF out = "raises_tab_closed" THEN TabClosedByHand
                                         ELSE UNCHANGED <<window_handles, tab_url>>
         /\ IF out \in {"submitted", "submit_missing", "skipped"}
              THEN /\ pc' = "p3_close"
                   /\ UNCHANGED <<console, pause_from, pause_to, last_pause>>
              ELSE EnterPause("p3_apply", "p3_close")
    /\ UNCHANGED <<prog, engine_vars, current, site_vars, iai_vars, loop_vars, base_tab,
                   obs_vars, fatal>>

\* A part3 that returns to base_tab before it closes the active tab.
P3_CloseAfterReturn ==
    /\ pc = "p3_close"
    /\ window_handles' = SelectSeq(window_handles, LAMBDA h : h # base_tab)
    /\ tab_url' = [g \in Range(window_handles) \ {base_tab} |-> tab_url[g]]
    /\ current' = base_tab
    /\ job_open' = FALSE
    /\ IF job_i >= JobLimit \/ applied_count >= JobLimit
         THEN pc' = "done" /\ job_i' = job_i
         ELSE pc' = "p3_job" /\ job_i' = job_i + 1
    /\ UNCHANGED <<prog, count_vars, engine_vars, gate_vars, site_vars, iai_vars, jobs, success,
                   captcha_tab, p3_vars, job_tab, kept_tabs, pages_processed, revisit_call,
                   top_page>>

\* try: driver.close() except: pass; driver.switch_to.window(base_tab); the
\* 20-job safety stop.  driver.close() raises when the active tab is gone.
P3_Close ==
    /\ pc = "p3_close"
    /\ IF current \in Range(window_handles)
         THEN /\ window_handles' = SelectSeq(window_handles, LAMBDA h : h # current)
              /\ tab_url' = [g \in Range(window_handles) \ {current} |-> tab_url[g]]
         ELSE UNCHANGED <<window_handles, tab_url>>
    /\ current' = base_tab
    /\ job_open' = FALSE
    /\ IF job_i >= JobLimit \/ applied_count >= JobLimit
         THEN pc' = "done" /\ job_i' = job_i
         ELSE pc' = "p3_job" /\ job_i' = job_i + 1
    /\ UNCHANGED <<prog, count_vars, engine_vars, gate_vars, site_vars, iai_vars, jobs, success, captcha_tab,
                   p3_vars, job_tab, kept_tabs, pages_processed, revisit_call, top_page>>

\* The for loop is exhausted: the function returns.
P3_Return ==
    /\ pc = "p3_job"
    /\ job_i > Len(jobs)
    /\ pc' = "done"
    /\ UNCHANGED <<prog, count_vars, engine_vars, jobs_vars>>

(***************************************************************************)
(* Specification of the job loops: a run of IAIApplicationBot, or one call *)
(* of part3_process_each_job_and_save on the jobs of a results page.       *)
(***************************************************************************)
\* Values given to --start: small ones (0 is raised to 1 by __init__) and the
\* ones around the pg limit of compute_next_list_url.
StartArgs == (0..MaxStart) \cup {PgLimit, PgLimit + 1}
PagesArgs == (-1)..MaxPagesArg

InitJobs ==
    /\ EngineIdle
    /\ prog \in {"iai", "part3"}
    /\ run_cap = MaxRun
    /\ redirects = 0
    /\ cards_shown = 0
    /\ window_handles = <<1>>
    /\ current = 1
    /\ main_handle = 0
    /\ last_list_url = None
    /\ visited_urls = {}
    /\ job_i = 1
    /\ success = FALSE
    /\ captcha_tab = 0
    /\ base_tab = 0
    /\ applied_count = 0
    /\ job_tab = 0
    /\ job_open = FALSE
    /\ kept_tabs = 0
    /\ pages_processed = 0
    /\ revisit_call = FALSE
    /\ top_page = 0
    /\ submits = 0
    /\ reviews = 0
    /\ console \in {"tty", "closed"}
    /\ pause_from = "none"
    /\ pause_to = "none"
    /\ last_pause = "none"
    /\ fatal = "none"
    /\ \/ /\ prog = "iai"
          /\ pc = "iai_start"
          /\ tab_url = [h \in {1} |-> BlankUrl]
          /\ \E a \in StartArgs : start_page = MaxOf(1, a)     \* max(1, start_page)
          /\ \E n \in PagesArgs : max_pages = MaxOf(0, n)      \* max(0, max_pages)
          /\ site_last \in 0..MaxSitePages
          /\ list_captcha \in BOOLEAN
          /\ jobs = <<>>
       \/ /\ prog = "part3"
          /\ pc = "rb_build"
          /\ tab_url = [h \in {1} |-> ErrorUrl]
          /\ start_page = 1
          /\ max_pages = 0
          /\ site_last = 0
          /\ list_captcha = FALSE
          /\ jobs = <<>>

NextJobs ==
    \/ IAI_Start
    \/ IAI_Scrape
    \/ IAI_JobSkip
    \/ IAI_OpenTab
    \/ IAI_Fill
    \/ IAI_Submit
    \/ IAI_Wait1
    \/ IAI_Captcha
    \/ IAI_Wait2
    \/ IAI_WaitManual
    \/ IAI_ExceptPause
    \/ IAI_FinishTab
    \/ IAI_PageDone
    \/ Pause_Ack
    \/ Pause_NoInput
    \/ RB_Build
    \/ RB_Login
    \/ RB_Filter
    \/ RB_Except
    \/ P3_Enter
    \/ P3_Skip
    \/ P3_Open
    \/ P3_Extract
    \/ P3_Apply
    \/ P3_Close
    \/ P3_Return

SpecJobs == InitJobs /\ [][NextJobs]_vars

(***************************************************************************)
(* Specification of the page loop of IAIApplicationBot.run alone: the site *)
(* serves every list URL as requested and its pages show no job card, and  *)
(* the run is followed to its end.                                         *)
(***************************************************************************)
\* Values given to --start and --pages.
PageLoopStarts == {1, 2, PgLimit - 1, PgLimit, PgLimit + 1, PgLimit + 2}
PageLoopPages == 0..MaxPagesArg

InitPages ==
    /\ EngineIdle
    /\ prog = "iai"
    /\ pc = "iai_start"
    /\ run_cap = PgLimit + 2
    /\ redirects = MaxRedirects        \* no request is redirected
    /\ site_last = 0
    /\ list_captcha = FALSE
    /\ cards_shown = 0
    /\ window_handles = <<1>>
    /\ current = 1
    /\ tab_url = [h \in {1} |-> BlankUrl]
    /\ start_page \in PageLoopStarts
    /\ max_pages \in PageLoopPages
    /\ main_handle = 0
    /\ last_list_url = None
    /\ visited_urls = {}
    /\ jobs = <<>>
    /\ job_i = 1
    /\ success = FALSE
    /\ captcha_tab = 0
    /\ base_tab = 0
    /\ applied_count = 0
    /\ job_tab = 0
    /\ job_open = FALSE
    /\ kept_tabs = 0
    /\ pages_processed = 0
    /\ revisit_call = FALSE
    /\ top_page = 0
    /\ submits = 0
    /\ reviews = 0
    /\ console = "tty"
    /\ pause_from = "none"
    /\ pause_to = "none"
    /\ last_pause = "none"
    /\ fatal = "none"

NextPages ==
    \/ IAI_Start
    \/ IAI_Scrape
    \/ IAI_PageDone

SpecPages == InitPages /\ [][NextPages]_vars

\* run() is a sequential loop: whenever a step is possible, one is taken.
FairPages == SpecPages /\ WF_vars(NextPages)

(***************************************************************************)
(* Properties of the interaction engine                                    *)
(***************************************************************************)
\* Some signal is non-empty in both snapshots and differs between them.
AnySharedChange(b, a) ==
    \E i \in 1..3 : b[i] # <<>> /\ a[i] # <<>> /\ a[i] # b[i]

\* The wait loop has polled at least once in this call.
Polled == prog = "nextpage" /\ clicked /\ elapsed > 0

\* C1: robust_click attempts its stages in the order 1 (native), 2 (scroll + JS),
\* 3 (ActionChains); every stage before the last attempted one failed, so no
\* stage is attempted after a success, and a success makes it return True.
C1_StageOrder ==
    /\ Len(click_log) <= 3
    /\ \A k \in 1..Len(click_log) : click_log[k].stage = k
    /\ \A k \in 1..(Len(click_log) - 1) : ~click_log[k].ok
    /\ (pc = "rc_return" /\ click_log[Len(click_log)].ok) => click_result = "true"
    /\ (pc = "rc_return" /\ click_result = "true") => click_log[Len(click_log)].ok

C1_Witness ==
    /\ pc = "rc_return"
    /\ Len(click_log) = 2
    /\ ~click_log[1].ok
    /\ click_log[2].ok
    /\ click_result = "true"

\* C2: after the click, a poll whose snapshot has at least one signal that is
\* non-empty in both snapshots and different returns True at once, whatever the
\* other two signals are.
C2_ConvergesOnAnySharedChange ==
    (Polled /\ AnySharedChange(before_state, after_state))
        => (pc = "done" /\ np_result = "true")

\* Only the third signal changed; the first is unchanged, the second is absent before.
C2_Witness ==
    /\ Polled
    /\ pc = "done"
    /\ np_result = "true"
    /\ before_state[1] # <<>> /\ after_state[1] = before_state[1]
    /\ before_state[2] = <<>> /\ after_state[2] # <<>>
    /\ before_state[3] # <<>> /\ after_state[3] # <<>> /\ after_state[3] # before_state[3]

\* C3: a signal that is empty in either snapshot is never treated as changed:
\* True is returned only for a signal non-empty on both sides and different, and
\* a wait in which no poll saw one returns False.
C3_EmptyNeverChanged ==
    /\ np_result = "true" => (Polled /\ AnySharedChange(before_state, after_state))
    /\ (pc = "done" /\ Polled /\ ~AnySharedChange(before_state, after_state))
           => np_result = "false"

\* A wait that timed out although a signal went from empty to populated.
C3_Witness ==
    /\ pc = "done"
    /\ Polled
    /\ np_result = "false"
    /\ before_state[2] = <<>> /\ after_state[2] # <<>>
    /\ before_state[1] # <<>> /\ after_state[1] = <<>>

\* The scenario of C4: before (page="1", count="", firstId="x"),
\* after (page="1", count="1-20 of 40", firstId="x").
C4_Before == << <<1>>, <<>>, <<2>> >>
C4_After  == << <<1>>, <<1>>, <<2>> >>

\* C4 as stated: with that before and after state the wait returns True through
\* the count signal (a first appearance counts as a change).
C4_FirstAppearanceConverges ==
    (Polled /\ before_state = C4_Before /\ after_state = C4_After)
        => np_result = "true"

\* C4 amended: a poll that sees the count signal appear (empty before, populated
\* after) with the other signals unchanged does not return True, and the wait
\* whose last poll saw that state returns False.
C4_FirstAppearanceIgnored ==
    (Polled /\ before_state = C4_Before /\ after_state = C4_After)
        => (np_result # "true" /\ (pc = "done" => np_result = "false"))

C4_Witness ==
    /\ Polled
    /\ pc = "done"
    /\ before_state = C4_Before
    /\ after_state = C4_After
    /\ np_result = "false"

\* C5: a wait in which no shared signal changes returns False; the time spent
\* in the loop never exceeds the 20 s budget plus one 0.6 s poll; the loop ends.
C5_BoundedWait ==
    /\ [](prog = "nextpage" => elapsed <= WaitBudget + PollSleep)
    /\ []((pc = "done" /\ Polled /\ ~AnySharedChange(before_state, after_state))
             => (np_result = "false" /\ elapsed >= WaitBudget))
    /\ (pc = "np_wait" ~> pc = "done")

C5_Witness ==
    /\ pc = "done"
    /\ Polled
    /\ np_result = "false"
    /\ elapsed > WaitBudget

(***************************************************************************)
(* Properties of the job loops and of the page loop                        *)
(***************************************************************************)
\* C6 as stated: in either script at most two tabs are open at any time.
C6_AtMostTwoTabs == Len(window_handles) <= 2

\* C6 amended: part3_process_each_job_and_save never has more than two tabs
\* open; IAIApplicationBot has the list tab, the tab of the job in progress and
\* one tab for each earlier job that finish_tab(False) left open.
C6_TabsBounded ==
    /\ prog = "part3" => Len(window_handles) <= 2
    /\ prog = "iai" =>
          Len(window_handles) <= 1 + kept_tabs + (IF job_open THEN 1 ELSE 0)

\* Two applications failed: their tabs stay open beside the list tab.
C6_Witness ==
    /\ prog = "iai"
    /\ pc = "iai_job"
    /\ kept_tabs = 2
    /\ Len(window_handles) = 3

\* When a job body is over (the next job is about to start, or control has
\* left the function) the active context is the list tab and no job body
\* holds a tab; in part3 the list tab is then the only tab.
C7_ContextRestored ==
    /\ (prog = "iai" /\ pc = "iai_job") => (~job_open /\ current = main_handle)
    /\ (prog = "part3" /\ base_tab # 0 /\ pc \in {"p3_job", "done", "crashed"})
          => (~job_open /\ current = base_tab /\ window_handles = <<base_tab>>)

\* C7: on every exit path of the per-job body the job tab is released (closed;
\* in the IAI script left open only when the application failed) and the
\* active context is the list tab before the next job starts or control
\* leaves the function.
C7_JobTabReleased ==
    /\ C7_ContextRestored
    /\ (prog = "iai" /\ pc = "iai_job" /\ job_tab \in Range(window_handles)) => ~success

\* A job reported successful whose own tab is still open at the next job.
C7_Witness ==
    /\ prog = "iai"
    /\ pc = "iai_job"
    /\ success
    /\ job_tab \in Range(window_handles)
    /\ current = main_handle

C9_AtMostNPages ==
    (prog = "iai" /\ max_pages > 0 /\ redirects = 0) => pages_processed <= max_pages

\* --start 2 --pages 1: pages 2 and 3 have been processed when the limit stops the run.
C9_Witness ==
    /\ prog = "iai"
    /\ pc = "done"
    /\ redirects = 0
    /\ start_page = 2
    /\ max_pages = 1
    /\ pages_processed = 2

\* C10: with --pages 0, a run in which every request lands on the requested
\* page loads no list page beyond the first one after the last page of
\* listings (or after its start page, when it starts beyond the listings).
C10_StopsAfterListings ==
    (prog = "iai" /\ max_pages = 0 /\ redirects = 0)
        => top_page <= MaxOf(site_last, start_page) + 1

\* --pages 0 on a site with one page of listings: page 3 has been loaded.
C10_Witness ==
    /\ prog = "iai"
    /\ max_pages = 0
    /\ redirects = 0
    /\ start_page = 1
    /\ site_last = 1
    /\ top_page = 3

(***************************************************************************)
(* Properties of the human-escalation pauses                               *)
(***************************************************************************)
\* C11 as stated: the run never goes past a pause without an acknowledgment
\* of the operator, also when console input is unavailable.
C11_NeverPastPauseWithoutAck == last_pause # "no_input"

\* C11 amended: when console input is available, a pause is left only by the
\* operator's acknowledgment; a pause left without one is a pause whose input()
\* raised because there is no console input.
C11_AckUnlessNoConsole ==
    /\ [](console = "tty" => last_pause # "no_input")
    /\ [][(pc = "pause" /\ pc' # "pause" /\ console = "tty") => last_pause' = "ack"]_vars

\* A pause of either kind has been left on the operator's acknowledgment.
C11_Witness ==
    /\ console = "tty"
    /\ last_pause = "ack"
    /\ pc \in {"p3_apply", "iai_finish"}

\* What the steps before a pause have produced.
Produced ==
    <<applied_count, visited_urls, jobs, job_i, window_handles, tab_url, current,
      base_tab, main_handle, last_list_url, kept_tabs, pages_processed>>

C13_ExceptionsEscalated == pc = "crashed" => fatal = "prompted"

\* Loading a later list page raised in the IAI run: the run is over and no
\* prompt was shown for the exception.
C13_Witness ==
    /\ prog = "iai"
    /\ pc = "crashed"
    /\ fatal = "unprompted"
    /\ pages_processed >= 1

(***************************************************************************)
(* Properties of switch_to_frame_containing                                *)
(***************************************************************************)
\* The search is over: it has returned or raised.
SearchOver == prog = "frames" /\ pc \in {"fs_done", "fs_raised", "fs_rb_except"}

\* C14: a target that is not found is reported to the immediate caller; the
\* exception of an engine helper never leaves the function that called it.
C14_NothingPastDirectCaller == unwound <= 1

\* The locator is nowhere on the page: the exception raised by the search has
\* left part1_login and is in the except clause of run_bot.
C14_Witness ==
    /\ prog = "frames"
    /\ pc = "fs_rb_except"
    /\ fs_where = {}
    /\ fs_result = "NoSuchElementException"
    /\ unwound = 2

\* C16: a locator whose element lies in an iframe nested two levels deep is
\* found, and the function returns with the driver switched into that frame;
\* after an unsuccessful search the driver is back in the context the search
\* was called in (the primary document, where part1_login calls it).
C16_FindsDepthTwoAndRestores ==
    /\ (SearchOver /\ \E q \in fs_where : Len(q) = 2)
          => (fs_result = "found" /\ ctx \in fs_where)
    /\ (SearchOver /\ fs_result = "NoSuchElementException") => ctx = <<>>
    /\ (SearchOver /\ fs_result = "found") => ctx \in fs_where

\* Found in the first iframe of the second iframe, after the primary document
\* and the frames before it were examined.
C16_Witness ==
    /\ prog = "frames"
    /\ pc = "fs_done"
    /\ fs_result = "found"
    /\ ctx = <<2, 1>>
    /\ fs_tree[1] >= 1

\* The frames are examined one level after the other.
LevelByLevel ==
    \A a, b \in 1..Len(fs_log) : a < b => Len(fs_log[a]) <= Len(fs_log[b])

\* The document examined after document c in a depth-first walk limited to two
\* levels (<<0>> = none).
NextDocument(c) ==
    IF c = <<>> THEN <<1>>
    ELSE IF Len(c) = 1
           THEN IF c[1] <= Len(fs_tree) /\ fs_tree[c[1]] >= 1 THEN <<c[1], 1>>
                                                              ELSE <<c[1] + 1>>
           ELSE IF c[2] < fs_tree[c[1]] THEN <<c[1], c[2] + 1>>
                                        ELSE <<c[1] + 1>>

\* C17 as stated: the primary document first, then every first-level iframe
\* before any second-level iframe, no frame deeper than two levels.
C17_BreadthFirst ==
    /\ (fs_log # <<>> => fs_log[1] = <<>>)
    /\ LevelByLevel
    /\ Len(ctx) <= 2

\* C17 amended: the primary document first, then depth-first: each first-level
\* iframe is followed by the iframes it contains, before the next first-level
\* iframe; every document is entered from the top-level document, and no frame
\* deeper than two levels is entered.
C17_DepthFirst ==
    /\ (fs_log # <<>> => fs_log[1] = <<>>)
    /\ \A k \in 1..(Len(fs_log) - 1) : fs_log[k + 1] = NextDocument(fs_log[k])
    /\ \A k \in 1..Len(fs_log) : Len(fs_log[k]) <= 2
    /\ (prog = "frames" /\ fs_log # <<>> /\ pc # "fs_raised" /\ pc # "fs_rb_except")
          => ctx = fs_log[Len(fs_log)]
    /\ Len(ctx) <= 2
    /\ (SearchOver /\ fs_result = "NoSuchElementException")
          => Len(fs_log) = 1 + Len(fs_tree) + Cardinality({q \in FramePaths :
                 Len(q) = 2 /\ q[1] <= Len(fs_tree) /\ q[2] <= fs_tree[q[1]]})

\* An iframe inside the first iframe was examined before the second iframe.
C17_Witness ==
    /\ prog = "frames"
    /\ Len(fs_log) >= 4
    /\ fs_log[2] = <<1>>
    /\ fs_log[3] = <<1, 1>>
    /\ fs_log[4] = <<2>>

(***************************************************************************)
(* Properties of safe_click and of the candidate locator lists             *)
(***************************************************************************)
\* The three stages of a robust_click call all raised.
AllStagesRaised(stages) ==
    /\ Len(stages) = 3
    /\ \A n \in 1..3 : stages[n].stage = n /\ ~stages[n].ok

\* C15: robust_click returns False iff all three of its stages raise and
\* never propagates an exception; safe_click never raises, returns False when
\* its locator is not clickable within the timeout (robust_click is then not
\* called), and otherwise returns what robust_click returns.
C15_ClickResults ==
    (prog = "locators" /\ lr_mode = "any_safe_click") =>
        /\ pc # "lr_raised"
        /\ lr_result \notin Exceptions
        /\ click_result = "false" <=> AllStagesRaised(click_log)
        /\ \A n \in 1..Len(lr_tried) :
              LET e == lr_tried[n] IN
              /\ ~Clickable(lr_locs[e.cand]) => e.outcome \in {"timeout", "error"}
              /\ e.outcome \in {"timeout", "error"} => e.stages = <<>>
              /\ e.outcome = "click_failed" <=> AllStagesRaised(e.stages)
              /\ e.outcome = "clicked" <=>
                    (e.stages # <<>> /\ e.stages[Len(e.stages)].ok)
        /\ lr_result = "true" <=>
              (\E n \in 1..Len(lr_tried) : lr_tried[n].outcome = "clicked")
        /\ (pc = "lr_done" /\ lr_result = "false") =>
              \A n \in 1..Len(lr_tried) : lr_tried[n].outcome # "clicked"

\* A chain whose first safe_click timed out, whose second returned the False
\* of a robust_click with three failed stages, and whose third returned True.
C15_Witness ==
    /\ prog = "locators"
    /\ lr_mode = "any_safe_click"
    /\ pc = "lr_done"
    /\ lr_result = "true"
    /\ Len(lr_tried) = 3
    /\ lr_tried[1].outcome = "timeout"
    /\ lr_tried[2].outcome = "click_failed"
    /\ lr_tried[3].outcome = "clicked"

\* The lookups whose candidates are an ordered list tried until one succeeds.
OrderedLookup == prog = "locators" /\ lr_mode \in {"any_safe_click", "sign_in"}

\* Candidate k is the only one that matches a visible element.
OnlyVisible(k) ==
    /\ k \in 1..Len(lr_locs)
    /\ \A j \in 1..Len(lr_locs) : (j = k) <=> (lr_locs[j].match /\ lr_locs[j].shown = "first")

Succeeded(e) == e.outcome \in {"clicked", "selected"}

\* The candidates are tried in the order of the list and none is tried after
\* the first success.
InOrderUntilSuccess ==
    /\ \A n \in 1..Len(lr_tried) : lr_tried[n].cand = n
    /\ \A n \in 1..Len(lr_tried) : Succeeded(lr_tried[n]) => n = Len(lr_tried)
    /\ pc \in {"lr_wait", "rc_native", "rc_js", "rc_chains", "rc_return"}
          => lr_k = Len(lr_tried) + 1

C19_ReturnedVisible ==
    (prog = "locators" /\ lr_el # NoElement) => lr_el.displayed

\* C19 amended: the Sign In lookup and safe_click return only displayed
\* elements; the Israel label lookup returns a displayed element when the
\* locator has one and otherwise the present element; the fallback 10.c acts
\* on the first present element, displayed or not.
C19_VisibleWhereChecked ==
    (prog = "locators" /\ lr_el # NoElement) =>
        LET c == lr_locs[lr_el.cand] IN
        /\ Present(c)
        /\ lr_mode \in {"sign_in", "any_safe_click"} => lr_el.displayed
        /\ lr_mode = "israel_label" => (lr_el.displayed <=> c.shown # "none")
        /\ lr_mode = "tc_checkbox" => (lr_el.displayed <=> c.shown = "first")

\* The Sign In lookup skipped a present element that is not displayed and
\* returned the displayed element of the next candidate.
C19_Witness ==
    /\ prog = "locators"
    /\ lr_mode = "sign_in"
    /\ pc = "lr_done"
    /\ lr_el = [cand |-> 2, displayed |-> TRUE]
    /\ lr_tried[1].outcome = "hidden"

\* The locator set [A, B]: A never matches, B matches a clickable element
\* after LateAt seconds; each safe_click has the default timeout.
C20_Scenario ==
    /\ prog = "locators"
    /\ lr_mode = "any_safe_click"
    /\ lr_timeout = SafeClickTimeout
    /\ lr_locs = <<NoMatch, [match |-> TRUE, at |-> LateAt, shown |-> "first"]>>

\* C20: in that scenario the resolution succeeds with B after at least
\* LateAt seconds and before the budget is over, the budget bounding the
\* whole set.
C20_BudgetBoundsSet ==
    (C20_Scenario /\ pc = "lr_done" /\ lr_result = "true") =>
        /\ lr_el.cand = 2
        /\ lr_clock >= LateAt
        /\ lr_clock < lr_timeout

\* B was clicked once the full timeout of A was over.
C20_Witness ==
    /\ C20_Scenario
    /\ pc = "lr_done"
    /\ lr_result = "true"
    /\ lr_el.cand = 2
    /\ lr_tried[1].outcome = "timeout"
    /\ lr_clock = lr_timeout

(***************************************************************************)
(* Properties of compute_next_list_url                                     *)
(***************************************************************************)
\* The URL is a list URL of the site: host, path and pr value match.
OnList(u) == u.host = "jobs.iai.co.il" /\ u.path = "/jobs/" /\ u.pr = "41"

\* C21: for a URL on host jobs.iai.co.il with path /jobs/ and pr=41 the call
\* returns the same URL with pg=2 when pg is absent and with pg=X+1 when pg=X
\* and 1 <= X <= 1000; it returns None when pg is not an integer, X < 1,
\* X > 1000, or host, path or pr do not match; it never raises.
C21_NextListUrl ==
    (prog = "nexturl" /\ cn_out # "none") =>
        /\ cn_out = "returned"
        /\ (OnList(cn_url) /\ cn_url.pgKind = "absent")
              => cn_ret = [cn_url EXCEPT !.pgKind = "int", !.pgVal = 2]
        /\ (OnList(cn_url) /\ cn_url.pgKind = "int"
                /\ 1 <= cn_url.pgVal /\ cn_url.pgVal <= PgLimit)
              => cn_ret = [cn_url EXCEPT !.pgVal = cn_url.pgVal + 1]
        /\ (cn_url.pgKind \in {"blank", "text"}) => cn_ret = None
        /\ (cn_url.pgKind = "int" /\ (cn_url.pgVal < 1 \/ cn_url.pgVal > PgLimit))
              => cn_ret = None
        /\ ~OnList(cn_url) => cn_ret = None

\* The call was given the list URL with a blank pg and returned page 2.
C21_Witness ==
    /\ prog = "nexturl"
    /\ cn_out = "returned"
    /\ cn_url = ListUrl("blank", 0)
    /\ cn_ret = ListUrl("int", 2)

(***************************************************************************)
(* Properties of the IAI tab handling and submission                       *)
(***************************************************************************)
\* A step that is one call of finish_tab.
FinishTabStep == prog = "iai" /\ pc = "iai_finish" /\ pc' # "iai_finish"

ChallengeOnApplicationTab ==
    /\ prog = "iai"
    /\ job_tab # 0
    /\ job_tab \in Range(window_handles)
    /\ captcha_tab = job_tab
    /\ ~IsThankYou(tab_url[job_tab])

\* C23: the pause for a CAPTCHA is never entered in a state where the URL of
\* the application tab contains /thank-you/.
C23_NoCaptchaPauseOnThankYou ==
    (prog = "iai" /\ pc = "pause" /\ pause_from = "iai_captcha")
        => ~(job_tab \in Range(window_handles) /\ IsThankYou(tab_url[job_tab]))

\* The CAPTCHA pause was entered on the widget of the list tab while the
\* application tab shows /thank-you/.
C23_Witness ==
    /\ prog = "iai"
    /\ pc = "pause"
    /\ pause_from = "iai_captcha"
    /\ current = main_handle
    /\ list_captcha
    /\ job_tab \in Range(window_handles)
    /\ IsThankYou(tab_url[job_tab])

\* C24: when the initial wait ends without a redirect and the application tab
\* shows a reCAPTCHA widget, the check for the challenge looks at the
\* application tab and the bot pauses before the second wait.
C24_PausesForChallenge ==
    [][(pc = "iai_captcha" /\ pc' # "iai_captcha" /\ ChallengeOnApplicationTab)
          => (current = job_tab /\ pc' = "pause")]_vars

\* The second wait began without any pause, the list tab being the active
\* one, although the application tab shows a reCAPTCHA widget.
C24_Witness ==
    /\ pc = "iai_wait2"
    /\ ChallengeOnApplicationTab
    /\ current = main_handle
    /\ current # job_tab
    /\ last_pause = "none"

(***************************************************************************)
(* Properties of go_to_next_results_page_if_any and of the Apply flow      *)
(***************************************************************************)
\* C25: go_to_next_results_page_if_any returns True only if a real page change
\* was detected after the next button was clicked; it returns False without
\* clicking anything when no next button is found or the button is disabled.
C25_TrueOnlyAfterNextClicked ==
    /\ []((prog = "nextpage" /\ np_result = "true")
            => /\ clicked
               /\ click_target = "next"
               /\ PollReturnsTrue(before_state, after_state))
    /\ []((prog = "nextpage" /\ pc = "done" /\ next_btn = "none")
            => (np_result = "false" /\ ~clicked /\ click_target = "none"))
    /\ [][(prog = "nextpage" /\ pc \in {"np_start", "np_disabled"} /\ pc' = "done")
             => (np_result' = "false" /\ ~clicked' /\ click_target' = "none"
                   /\ click_log' = <<>>)]_vars

\* True was returned for a page change seen after a click that was issued on
\* the root element of the document.
C25_Witness ==
    /\ prog = "nextpage"
    /\ pc = "done"
    /\ np_result = "true"
    /\ clicked
    /\ click_target = "html"
    /\ PollReturnsTrue(before_state, after_state)

LoadsNextPage == prog = "iai" /\ pc = "iai_job" /\ pc' = "iai_scrape"

\* C27 as stated: for every start_page >= 1 and max_pages >= 0 the page loop
\* ends, the pg number of the list URLs loaded one after the other strictly
\* increases, and no list URL with pg greater than 1001 is ever loaded.
C27_BoundedByLimit ==
    /\ <>(pc \in {"done", "crashed"})
    /\ [][LoadsNextPage => PageOf(tab_url'[current']) > PageOf(tab_url[current])]_vars
    /\ [](top_page <= PgLimit + 1)

\* C27 amended: the page loop ends, the pg number of the list URLs loaded one
\* after the other strictly increases (by one), and every page loaded after
\* the first has pg <= 1001; the first page loaded is the one --start names,
\* whatever its number.
C27_Terminates ==
    /\ <>(pc \in {"done", "crashed"})
    /\ [][LoadsNextPage => /\ PageOf(tab_url'[current']) = PageOf(tab_url[current]) + 1
                           /\ PageOf(tab_url'[current']) <= PgLimit + 1]_vars
    /\ [](top_page <= MaxOf(PgLimit + 1, start_page))
    /\ [](pages_processed < run_cap)

\* A run from the first page without --pages has ended after the page with
\* pg = 1001 was loaded.
C27_Witness ==
    /\ prog = "iai"
    /\ pc = "done"
    /\ start_page = 1
    /\ max_pages = 0
    /\ top_page = PgLimit + 1
    /\ pages_processed = PgLimit + 1

(***************************************************************************)
(* Properties of the tabs                                                  *)
(***************************************************************************)
\* C28: the persistent list tab (main_handle in the IAI script, base_tab in
\* the Nvidia script) is never closed by the bot: once it is known it is among
\* the open tabs in every state of the run, and it stays the same tab.
C28_ListTabNeverClosed ==
    /\ []((prog = "iai" /\ main_handle # 0) => main_handle \in Range(window_handles))
    /\ []((prog = "part3" /\ base_tab # 0) => base_tab \in Range(window_handles))
    /\ [][(prog = "iai" /\ main_handle # 0) => main_handle' = main_handle]_vars
    /\ [][(prog = "part3" /\ base_tab # 0) => base_tab' = base_tab]_vars

\* part3 has returned after a job that was applied to and a job whose tab was
\* closed by hand: the results tab is the only tab and the active one.
C28_Witness ==
    /\ prog = "part3"
    /\ pc = "done"
    /\ job_i = 3
    /\ applied_count = 1
    /\ last_pause # "none"
    /\ window_handles = <<base_tab>>
    /\ current = base_tab

\* C29: success is reported for a job only if the tab opened for that job by
\* open_in_new_tab reached /thank-you/, and the tab closed by finish_tab(True)
\* is that job's tab, never a tab left open by an earlier failed job.
C29_SuccessOnOwnTab ==
    /\ []((prog = "iai" /\ pc = "iai_finish" /\ success)
             => (job_tab \in Range(window_handles) /\ IsThankYou(tab_url[job_tab])))
    /\ [][(FinishTabStep /\ window_handles' # window_handles) => current = job_tab]_vars

\* finish_tab is about to be called with success True while the active tab is
\* the tab kept from an earlier failed job, and the tab of the current job has
\* not reached /thank-you/.
C29_Witness ==
    /\ prog = "iai"
    /\ pc = "iai_finish"
    /\ success
    /\ kept_tabs >= 1
    /\ current \notin {job_tab, main_handle}
    /\ IsThankYou(tab_url[current])
    /\ job_tab \in Range(window_handles)
    /\ ~IsThankYou(tab_url[job_tab])

====
